---- MODULE Spec2Model ----
(***************************************************************************)
(* Model of the flashblocks confirmation race demo.                        *)
(*                                                                         *)
(* Part I  : the ConfirmationRaceDemo component while it is mounted (run    *)
(*           controller, the two lane loops, their requests and timers).   *)
(* Part II : the server-side send path of src/lib/demo-tx.ts (the          *)
(*           promise-chained send queue and the nonce retry).              *)
(***************************************************************************)
EXTENDS Integers, Sequences, FiniteSets, TLC

\* ------------------------------------------------------------------ bounds

\* The run token is capped: start needs room for its own increment and for the
\* stop that ends the run.
MaxToken == 4
\* The server answers at most MaxServed requests of live loops; a request beyond
\* that hangs until it is aborted or its run is over.
MaxServed == 2
\* The number of sendLaneTransaction calls the server receives.
MaxOps == 3
\* The resolution of the clock: time passes in steps of at most TickMs, and stops
\* at the due time of the auto-stop timeout on the way.
TickMs == 4000
\* The number of confirmed cycles of one lane in one run, where the metrics are
\* checked on their own.
MaxConfirmations == 3
\* The number of handles the send route gives out in spoof mode.
MaxIssued == 1
\* The number of responses that come late or fail in the timed run.
MaxUpsets == 1
\* The number of spoof handles built and kept for decoding.
MaxHandles == 2
\* The number of events the race of one start request emits.
MaxEvents == 3

\* -------------------------------------------------------- program constants

MAX_RUNTIME_MS == 8000
CONFIRM_POLL_MS == 90
SEND_RETRY_MS == 40
\* MAX_RUNTIME_MS of components/ConfirmationRaceDemo/index.tsx
MAX_RUNTIME_MS_INDEX == 5000
MIN_DURATION_SECONDS == 1
MAX_DURATION_SECONDS == 60

Lanes == {"flashblocks", "normal"}

\* null of the nullable numbers (runDeadlineRef, stopTimerRef, latestLatencyMs)
NullNum == -1
\* null of the nullable strings (lastError, lastConfirmationMethod, fatalErrorMessage)
NullStr == "null"
\* null of averageLatencyMs, which is kept as an exact fraction <<num, den>>
NullAvg == <<0, 0>>

Tokens == 1..(MaxToken + 1)

\* Messages a failed /api/demo/send can carry (payload.error of the send route,
\* or the message of a transport failure). Phrases(message) is the set of the
\* phrases looked for by the code that message.toLowerCase() includes.
SendErrorMessages == {"insufficient funds for gas * price + value", "nonce too low"}

Phrases(message) ==
  CASE message = "insufficient funds for gas * price + value"
         -> {"insufficient funds", "gas * price + value"}
    [] message = "nonce too low" -> {"nonce too low"}
    [] message = "already known" -> {"already known"}
    [] OTHER -> {}

\* isInsufficientFundsError with one phrase only in its list.
isInsufficientFundsError_onePhrase(message) ==
  Phrases(message) \cap {"exceeds the balance of the account"} # {}

\* isInsufficientFundsError that takes every failure it can read for a lack of funds.
isInsufficientFundsError_anyPhrase(message) == Phrases(message) # {}

isInsufficientFundsError(message) ==
  Phrases(message) \cap {"insufficient funds", "exceeds the balance of the account",
                         "gas * price + value"} # {}

\* The method a confirmed verdict carries for a lane (checkLaneConfirmation).
ConfirmedMethodOf(lane) == IF lane = "flashblocks" THEN "receipt" ELSE "latest"

\* ------------------------------------------------------------- fractions

RECURSIVE GCD(_, _)
GCD(a, b) == IF b = 0 THEN a ELSE GCD(b, a % b)

Reduce(num, den) ==
  LET g == GCD(num, den) IN IF g = 0 THEN <<num, den>> ELSE <<num \div g, den \div g>>

\* ------------------------------------------------------------------ state

VARIABLES
  isRunning,             \* useState isRunning
  lanes,                 \* useState lanes: LaneMap
  fatalErrorMessage,     \* useState fatalErrorMessage (the lane it names, or null)
  runToken,              \* runTokenRef.current
  runDeadline,           \* runDeadlineRef.current
  stopTimerRef,          \* stopTimerRef.current: id of the armed auto-stop timeout
  animationTimers,       \* animationTimersRef.current and the timeouts behind it
  inFlightRequests,      \* inFlightRequestsRef.current: controllers, as <<token, lane>>
  timeouts,              \* auto-stop timeouts pending in the window: [id, due]
  loops,                 \* loops[token][lane]: the runLaneLoop call of that run and lane
  stoppedRuns,           \* history: the tokens that were current when stopRun was called
  served,                \* history: the number of requests of live loops answered so far
  now,                   \* Date.now() / performance.now(), in ms since Init
  lastCall,              \* history: the handler that ran last
  statusChanges,         \* history: the status changes updateLane made in the last step
  latencies,             \* history: per lane, the latencies of the run's confirmed cycles
  \* Part II, src/lib/demo-tx.ts
  ops,                   \* the operations given to enqueueSendTransaction, in call order
  sendTransactionQueue,  \* the operation whose settlement the queue promise follows
  started,               \* history: the operations in the order in which they started
  nonceNext,             \* the nonce manager's state: the next nonce to use
  sourceNonce,           \* the next nonce according to the nonce manager's source
  walletCalls,           \* history: the settled walletClient.sendTransaction calls
  \* Part III, src/lib/demo-tx.ts and the routes
  spoofTransactions,     \* process.env.DEMO_SPOOF_TRANSACTIONS === 'true'
  flashblocksBlockTag,   \* 'latest' if process.env.FLASHBLOCKS_BLOCK_TAG says so, else 'pending'
  issued,                \* history: the handles the send route gave out in spoof mode
  request,               \* history: the last request a route handled, with what it met
  response,              \* history: the response to that request
  coreCall,              \* history: the call into src/lib/demo-tx.ts that request led to
  \* the timed run of Part III
  wakeAt,                \* per lane, when the timeout of the loop's sleep is due
  upsets,                \* history: the responses that came late or failed in the timed run
  late,                  \* history: the lanes whose request on its way is late already
  \* Part IV, the response stream of app/api/demo/start/route.ts
  closed,                \* let closed of start(controller)
  runAbortController,    \* runAbortController.signal.aborted
  abortListener,         \* handleRequestAbort is registered on request.signal
  requestAborted,        \* request.signal.aborted
  streamState,           \* the ReadableStream: readable, closed (by close) or cancelled
  controllerCalls,       \* history: the calls of controller.enqueue and controller.close
  race,                  \* the promise of runDemoRace: pending, fulfilled or rejected
  emitted                \* history: the number of events the race has emitted

serverVars == <<ops, sendTransactionQueue, started, nonceNext, sourceNonce, walletCalls>>

apiVars == <<spoofTransactions, flashblocksBlockTag, issued, request, response, coreCall>>

raceVars == <<wakeAt, upsets, late>>

streamVars == <<closed, runAbortController, abortListener, requestAborted, streamState,
                controllerCalls, race, emitted>>

compVars == <<isRunning, lanes, fatalErrorMessage, runToken, runDeadline,
              stopTimerRef, animationTimers, inFlightRequests,
              timeouts, loops, stoppedRuns>>

INITIAL_LANE ==
  [status |-> "idle", sendsAttempted |-> 0, confirmationsObserved |-> 0,
   latestLatencyMs |-> NullNum, averageLatencyMs |-> NullAvg,
   lastConfirmationMethod |-> NullStr, lastError |-> NullStr,
   sendAnimationTick |-> 0, confirmAnimationTick |-> 0]

INITIAL_LANES == [l \in Lanes |-> INITIAL_LANE]

NoLatencies == [l \in Lanes |-> <<>>]

\* txHash is the loop's local of that name (0 before the send has answered);
\* polled is the txHash in the body of its last confirm request.
NoLoop == [pc |-> "none", req |-> "none", sleepMs |-> 0, sendStartAt |-> 0,
           txHash |-> 0, polled |-> 0]

DoneLoop == [NoLoop EXCEPT !.pc = "done"]

\* The component's state as one record, so that the handlers below are functions
\* from state to state and compose the way the calls in the source do.
Cur ==
  [isRunning |-> isRunning, lanes |-> lanes,
   fatalErrorMessage |-> fatalErrorMessage, runToken |-> runToken,
   runDeadline |-> runDeadline, stopTimerRef |-> stopTimerRef,
   animationTimers |-> animationTimers, inFlightRequests |-> inFlightRequests,
   timeouts |-> timeouts, loops |-> loops, stoppedRuns |-> stoppedRuns,
   statusChanges |-> <<>>]

CommitComponent(c) ==
  /\ isRunning' = c.isRunning
  /\ lanes' = c.lanes
  /\ fatalErrorMessage' = c.fatalErrorMessage
  /\ runToken' = c.runToken
  /\ runDeadline' = c.runDeadline
  /\ stopTimerRef' = c.stopTimerRef
  /\ animationTimers' = c.animationTimers
  /\ inFlightRequests' = c.inFlightRequests
  /\ timeouts' = c.timeouts
  /\ loops' = c.loops
  /\ stoppedRuns' = c.stoppedRuns
  /\ statusChanges' = c.statusChanges

Commit(c) ==
  /\ CommitComponent(c)
  /\ UNCHANGED <<serverVars, apiVars, raceVars, streamVars>>

\* ------------------------------------------------------- component helpers

\* updateLane that writes the lane's error into both lanes.
updateLane_sharedError(c, lane, laneState) ==
  [c EXCEPT !.lanes = [l \in Lanes |->
                         IF l = lane THEN laneState
                         ELSE [c.lanes[l] EXCEPT !.lastError = laneState.lastError]],
            !.statusChanges =
               IF laneState.status = c.lanes[lane].status THEN @
               ELSE Append(@, [lane |-> lane, from |-> c.lanes[lane].status,
                               to |-> laneState.status])]

updateLane(c, lane, laneState) ==
  [c EXCEPT !.lanes[lane] = laneState,
            !.statusChanges =
               IF laneState.status = c.lanes[lane].status THEN @
               ELSE Append(@, [lane |-> lane, from |-> c.lanes[lane].status,
                               to |-> laneState.status])]

\* isActiveRun with the comparison of the token left out: the deadline alone decides.
isActiveRun_deadlineOnly(c, token) ==
  /\ c.runDeadline # NullNum
  /\ now < c.runDeadline

isActiveRun(c, token) ==
  /\ c.runToken = token
  /\ c.runDeadline # NullNum
  /\ now < c.runDeadline

\* abortInFlightRequests that forgets the controllers without aborting them.
abortInFlightRequests_clearOnly(c) == [c EXCEPT !.inFlightRequests = {}]

abortInFlightRequests(c) ==
  [c EXCEPT
     !.loops = [t \in Tokens |-> [l \in Lanes |->
                  IF <<t, l>> \in c.inFlightRequests
                    THEN [c.loops[t][l] EXCEPT !.req = "aborted"]
                    ELSE c.loops[t][l]]],
     !.inFlightRequests = {}]

clearAnimationTimers(c) == [c EXCEPT !.animationTimers = {}]

\* clearStopTimer that forgets the reference and leaves the timeout pending.
clearStopTimer_keepTimeout(c) == [c EXCEPT !.stopTimerRef = NullNum]

clearStopTimer(c) ==
  IF c.stopTimerRef # NullNum
    THEN [c EXCEPT !.timeouts = {tm \in c.timeouts : tm.id # c.stopTimerRef},
                   !.stopTimerRef = NullNum]
    ELSE c

\* setStoppedStatuses that leaves a lane that never ran as it is.
\* setStoppedStatuses that also clears the lanes' errors.
setStoppedStatuses_clearError(c) ==
  [c EXCEPT !.lanes = [l \in Lanes |->
     [c.lanes[l] EXCEPT !.status = "stopped", !.lastError = NullStr]]]

setStoppedStatuses_skipIdle(c) ==
  [c EXCEPT !.lanes = [l \in Lanes |->
     IF c.lanes[l].status = "idle"
       THEN c.lanes[l] ELSE [c.lanes[l] EXCEPT !.status = "stopped"]]]

setStoppedStatuses(c) ==
  [c EXCEPT !.lanes = [l \in Lanes |-> [c.lanes[l] EXCEPT !.status = "stopped"]]]

\* invalidateRun that clears the deadline and forgets to advance the token.
invalidateRun_keepToken(c) == [c EXCEPT !.runDeadline = NullNum]

\* invalidateRun that invalidates nothing.
invalidateRun_skip(c) == c

\* runTokenRef.current += 1; runDeadlineRef.current = null
invalidateRun(c) == [c EXCEPT !.runToken = @ + 1, !.runDeadline = NullNum]

stopRun(c) ==
  LET c1 == clearStopTimer(c)
      c2 == invalidateRun([c1 EXCEPT !.stoppedRuns = @ \cup {c1.runToken}])
      c3 == clearAnimationTimers(abortInFlightRequests(c2))
  IN  setStoppedStatuses([c3 EXCEPT !.isRunning = FALSE])

\* postJson up to its await: a controller is created and tracked, the fetch is issued.
postJson(c, token, lane, pc) ==
  [c EXCEPT !.inFlightRequests = @ \cup {<<token, lane>>},
            !.loops[token][lane].pc = pc,
            !.loops[token][lane].req = "pending"]

\* postJson without its finally block: the controller stays tracked.
postJsonFinally_keepController(c, token, lane) ==
  [c EXCEPT !.loops[token][lane].req = "none"]

\* postJson's finally block, run when the fetch settles either way.
postJsonFinally(c, token, lane) ==
  [c EXCEPT !.inFlightRequests = @ \ {<<token, lane>>},
            !.loops[token][lane].req = "none"]

exitLoop(c, token, lane) == [c EXCEPT !.loops[token][lane] = DoneLoop]

\* The timeout of scheduleLaneSendAnimation is tracked in animationTimersRef. Its
\* delay (what is left of the lane's confirm animation, at most
\* LANE_PACKET_ANIMATION_MS) is below the clock's resolution, so that the timeout
\* is kept as pending, to fire at any later moment; n tells the timeouts of one
\* lane apart.
scheduleLaneSendAnimation(c, lane, token) ==
  [c EXCEPT !.animationTimers =
     @ \cup {[lane |-> lane, token |-> token, n |-> c.lanes[lane].sendsAttempted]}]

triggerLaneSendAnimation(c, lane, token) == scheduleLaneSendAnimation(c, lane, token)

\* ---------------------------------------------------------- runLaneLoop

\* The head of the outer loop that leaves the error of the last send in place.
loopTop_keepError(c, lane, token) ==
  IF isActiveRun(c, token)
    THEN LET c1 == updateLane(c, lane,
                     [c.lanes[lane] EXCEPT !.status = "sending",
                                           !.sendsAttempted = @ + 1])
             c2 == [c1 EXCEPT !.loops[token][lane] =
                      [NoLoop EXCEPT !.sendStartAt = now]]
         IN  postJson(c2, token, lane, "awaitSend")
    ELSE exitLoop(c, token, lane)

\* The head of the outer while loop, up to the await of the send request.
loopTop(c, lane, token) ==
  IF isActiveRun(c, token)
    THEN LET c1 == updateLane(c, lane,
                     [c.lanes[lane] EXCEPT !.status = "sending",
                                           !.sendsAttempted = @ + 1,
                                           !.lastError = NullStr])
             c2 == [c1 EXCEPT !.loops[token][lane] =
                      [NoLoop EXCEPT !.sendStartAt = now]]
         IN  postJson(c2, token, lane, "awaitSend")
    ELSE exitLoop(c, token, lane)

\* A loop without the confirmation loop: it goes on to its next send.
pollTop_resend(c, lane, token) == loopTop(c, lane, token)

\* The head of the inner while loop with confirmed = false, up to the await of the
\* confirm request; when the run is not active the inner loop is left and the
\* `continue` at its foot leads to the head of the outer loop.
pollTop(c, lane, token) ==
  IF isActiveRun(c, token)
    THEN [postJson(c, token, lane, "awaitConfirm") EXCEPT
            !.loops[token][lane].polled = c.loops[token][lane].txHash]
    ELSE loopTop(c, lane, token)

\* The confirmed updater that counts the confirmation and forgets its latency.
recordConfirmation_skipLatest(laneState, latencyMs, confirmationMethod) ==
  [laneState EXCEPT
     !.status = "confirmed",
     !.confirmationsObserved = @ + 1,
     !.confirmAnimationTick = @ + 1,
     !.lastConfirmationMethod =
        IF confirmationMethod = "none" THEN NullStr ELSE confirmationMethod]

\* The updater of a confirmed cycle without its status.
recordConfirmation_keepStatus(laneState, latencyMs, confirmationMethod) ==
  LET nextConfirmations == laneState.confirmationsObserved + 1
      avg == IF laneState.averageLatencyMs = NullAvg
               THEN <<0, 1>> ELSE laneState.averageLatencyMs
      num == avg[1] * laneState.confirmationsObserved + latencyMs * avg[2]
      den == avg[2] * nextConfirmations
  IN  [laneState EXCEPT
         !.confirmationsObserved = nextConfirmations,
         !.latestLatencyMs = latencyMs,
         !.averageLatencyMs = Reduce(num, den),
         !.confirmAnimationTick = @ + 1,
         !.lastConfirmationMethod =
            IF confirmationMethod = "none" THEN NullStr ELSE confirmationMethod]

\* The updater of a confirmed cycle that weighs the old average with the new count.
recordConfirmation_newCount(laneState, latencyMs, confirmationMethod) ==
  LET nextConfirmations == laneState.confirmationsObserved + 1
      avg == IF laneState.averageLatencyMs = NullAvg
               THEN <<0, 1>> ELSE laneState.averageLatencyMs
      num == avg[1] * nextConfirmations + latencyMs * avg[2]
      den == avg[2] * nextConfirmations
  IN  [laneState EXCEPT
         !.status = "confirmed",
         !.confirmationsObserved = nextConfirmations,
         !.latestLatencyMs = latencyMs,
         !.averageLatencyMs = Reduce(num, den),
         !.confirmAnimationTick = @ + 1,
         !.lastConfirmationMethod =
            IF confirmationMethod = "none" THEN NullStr ELSE confirmationMethod]

\* The updater of a confirmed cycle.
recordConfirmation(laneState, latencyMs, confirmationMethod) ==
  LET nextConfirmations == laneState.confirmationsObserved + 1
      avg == IF laneState.averageLatencyMs = NullAvg
               THEN <<0, 1>> ELSE laneState.averageLatencyMs
      \* (avg * count + latency) / nextConfirmations, as an exact fraction
      num == avg[1] * laneState.confirmationsObserved + latencyMs * avg[2]
      den == avg[2] * nextConfirmations
  IN  [laneState EXCEPT
         !.status = "confirmed",
         !.confirmationsObserved = nextConfirmations,
         !.latestLatencyMs = latencyMs,
         !.averageLatencyMs = Reduce(num, den),
         !.confirmAnimationTick = @ + 1,
         !.lastConfirmationMethod =
            IF confirmationMethod = "none" THEN NullStr ELSE confirmationMethod]

\* afterSend that records the failure before it looks at the run and the abort.
afterSend_recordFirst(c, lane, token, outcome) ==
  LET c0 == postJsonFinally(c, token, lane) IN
  IF outcome.kind = "ok"
    THEN IF ~isActiveRun(c0, token)
           THEN exitLoop(c0, token, lane)
           ELSE LET c1 == triggerLaneSendAnimation(
                            [c0 EXCEPT !.loops[token][lane].txHash = outcome.txHash],
                            lane, token)
                    c2 == updateLane(c1, lane,
                            [c1.lanes[lane] EXCEPT !.status = "waiting"])
                IN  pollTop(c2, lane, token)
    ELSE LET c1 == updateLane(c0, lane,
                     [c0.lanes[lane] EXCEPT !.status = "error",
                                            !.lastError = outcome.message])
         IN  IF ~isActiveRun(c0, token) \/ outcome.kind = "abort"
               THEN exitLoop(c1, token, lane)
               ELSE IF isInsufficientFundsError(outcome.message)
                 THEN exitLoop(stopRun([c1 EXCEPT !.fatalErrorMessage = lane]),
                               token, lane)
                 ELSE [c1 EXCEPT !.loops[token][lane].pc = "sleepRetry",
                                 !.loops[token][lane].sleepMs = SEND_RETRY_MS]

\* The continuation of the send request. outcome.kind is "ok" (with txHash),
\* "error" (with message) or "abort" (an AbortError).
afterSend(c, lane, token, outcome) ==
  LET c0 == postJsonFinally(c, token, lane) IN
  IF outcome.kind = "ok"
    THEN IF ~isActiveRun(c0, token)
           THEN exitLoop(c0, token, lane)
           ELSE LET c1 == triggerLaneSendAnimation(
                            [c0 EXCEPT !.loops[token][lane].txHash = outcome.txHash],
                            lane, token)
                    c2 == updateLane(c1, lane,
                            [c1.lanes[lane] EXCEPT !.status = "waiting"])
                IN  pollTop(c2, lane, token)
    ELSE IF ~isActiveRun(c0, token) \/ outcome.kind = "abort"
           THEN exitLoop(c0, token, lane)
           ELSE LET c1 == updateLane(c0, lane,
                            [c0.lanes[lane] EXCEPT !.status = "error",
                                                   !.lastError = outcome.message])
                IN  IF isInsufficientFundsError(outcome.message)
                      THEN exitLoop(stopRun([c1 EXCEPT !.fatalErrorMessage = lane]),
                                    token, lane)
                      ELSE [c1 EXCEPT !.loops[token][lane].pc = "sleepRetry",
                                      !.loops[token][lane].sleepMs = SEND_RETRY_MS]

\* afterConfirm that treats a failed poll of a live run as it would a failed send.
afterConfirm_surfaceError(c, lane, token, outcome) ==
  LET c0 == postJsonFinally(c, token, lane)
      confirmed == outcome.kind = "ok" /\ outcome.confirmed
  IN
  IF outcome.kind # "ok" /\ (~isActiveRun(c0, token) \/ outcome.kind = "abort")
    THEN exitLoop(c0, token, lane)
    ELSE IF ~confirmed /\ isActiveRun(c0, token)
      THEN LET c1 == IF outcome.kind = "ok" THEN c0
                     ELSE updateLane(c0, lane,
                            [c0.lanes[lane] EXCEPT !.status = "error",
                                                   !.lastError = outcome.message])
           IN  [c1 EXCEPT !.loops[token][lane].pc = "sleepPoll",
                          !.loops[token][lane].sleepMs = CONFIRM_POLL_MS]
      ELSE IF ~confirmed \/ ~isActiveRun(c0, token)
        THEN loopTop(c0, lane, token)
        ELSE LET latencyMs == now - c0.loops[token][lane].sendStartAt
                 c1 == updateLane(c0, lane,
                         recordConfirmation(c0.lanes[lane], latencyMs, outcome.method))
             IN  loopTop(c1, lane, token)

\* The continuation of a confirm request. outcome.kind is "ok" (with confirmed
\* and method), "error" or "abort".
afterConfirm(c, lane, token, outcome) ==
  LET c0 == postJsonFinally(c, token, lane)
      confirmed == outcome.kind = "ok" /\ outcome.confirmed
  IN
  IF outcome.kind # "ok" /\ (~isActiveRun(c0, token) \/ outcome.kind = "abort")
    THEN exitLoop(c0, token, lane)
    ELSE IF ~confirmed /\ isActiveRun(c0, token)
      THEN [c0 EXCEPT !.loops[token][lane].pc = "sleepPoll",
                      !.loops[token][lane].sleepMs = CONFIRM_POLL_MS]
      ELSE IF ~confirmed \/ ~isActiveRun(c0, token)
        THEN loopTop(c0, lane, token)
        ELSE LET latencyMs == now - c0.loops[token][lane].sendStartAt
                 c1 == updateLane(c0, lane,
                         recordConfirmation(c0.lanes[lane], latencyMs, outcome.method))
             IN  loopTop(c1, lane, token)

\* ---------------------------------------------------------------- startRun

\* resetLanes that keeps what the previous run left.
resetLanes_skip(c) == c

\* setLanes(INITIAL_LANES())
resetLanes(c) == [c EXCEPT !.lanes = INITIAL_LANES]

\* armStopTimer that records the timer's id and sets no timeout.
armStopTimer_noTimeout(c, token) == [c EXCEPT !.stopTimerRef = token]

\* stopTimerRef.current = window.setTimeout(() => stopRun(), MAX_RUNTIME_MS); the
\* timeout is identified by the token of the run that armed it.
armStopTimer(c, token) ==
  [c EXCEPT !.stopTimerRef = token,
            !.timeouts = @ \cup {[id |-> token, due |-> now + MAX_RUNTIME_MS]}]

\* startRun without the isRunning guard: a start during a run begins a new run.
startRun_unguarded(c) ==
  LET c1 == clearStopTimer(c)
      token == c1.runToken + 1
      c2 == [c1 EXCEPT !.runToken = token,
                       !.runDeadline = now + MAX_RUNTIME_MS]
      c3 == [resetLanes(c2) EXCEPT !.fatalErrorMessage = NullStr,
                                   !.isRunning = TRUE]
      c4 == armStopTimer(c3, token)
  IN  loopTop(loopTop(c4, "flashblocks", token), "normal", token)

startRun(c) ==
  IF c.isRunning
    THEN c
    ELSE LET c1 == clearStopTimer(c)
             token == c1.runToken + 1
             c2 == [c1 EXCEPT !.runToken = token,
                              !.runDeadline = now + MAX_RUNTIME_MS]
             c3 == [resetLanes(c2) EXCEPT !.fatalErrorMessage = NullStr,
                                          !.isRunning = TRUE]
             c4 == armStopTimer(c3, token)
         IN  loopTop(loopTop(c4, "flashblocks", token), "normal", token)

\* ------------------------------------------------- responses of the server

Outcome(kind, txHash, message, confirmed, method) ==
  [kind |-> kind, txHash |-> txHash, message |-> message, confirmed |-> confirmed,
   method |-> method]

AbortOutcome == Outcome("abort", 0, "The operation was aborted", FALSE, "none")

\* What the send request of loops[token][lane] can settle with. An aborted fetch
\* rejects with an AbortError; otherwise the route answers with a transaction
\* hash (identified here by the number of the send within the lane) or an error.
SendOutcomes(lane, token) ==
  IF loops[token][lane].req = "aborted"
    THEN {AbortOutcome}
    ELSE {Outcome("ok", lanes[lane].sendsAttempted, NullStr, FALSE, "none")}
         \cup {Outcome("error", 0, m, FALSE, "none") : m \in SendErrorMessages}

\* What the confirm request of loops[token][lane] can settle with.
ConfirmOutcomes(lane, token) ==
  IF loops[token][lane].req = "aborted"
    THEN {AbortOutcome}
    ELSE {Outcome("ok", 0, NullStr, TRUE, ConfirmedMethodOf(lane)),
          Outcome("ok", 0, NullStr, FALSE, "none"),
          Outcome("error", 0, "Request failed", FALSE, "none")}

\* A request of a live loop is answered only within the budget.
Serve(token, o) ==
  IF o.kind # "abort" /\ isActiveRun(Cur, token)
    THEN served < MaxServed /\ served' = served + 1
    ELSE served' = served

\* ---------------------------------------------------------------- actions

\* A click on Start (onClick={startRun}).
StartRun ==
  /\ ~isRunning => runToken + 2 <= MaxToken
  /\ Commit(startRun(Cur))
  /\ lastCall' = IF isRunning THEN "startRunIgnored" ELSE "startRun"
  /\ latencies' = IF isRunning THEN latencies ELSE NoLatencies
  /\ UNCHANGED <<now, served>>

\* A call of stopRun from outside the loops (onClick={stopRun}). stopRun itself
\* has no guard, and it is callable in every state: before any start and after a
\* stop as well (the button's disabled attribute is not part of the handler).
StopRun ==
  /\ runToken < MaxToken
  /\ Commit(stopRun(Cur))
  /\ lastCall' = "stopRun"
  /\ UNCHANGED <<now, served, latencies>>

\* The auto-stop timeout armed by startRun fires.
AutoStop ==
  \E tm \in timeouts :
    /\ tm.due <= now
    /\ Commit(stopRun([Cur EXCEPT !.timeouts = @ \ {tm}]))
    /\ lastCall' = "autoStop"
    /\ UNCHANGED <<now, served, latencies>>

\* The send request of a loop settles and the loop runs to its next await.
SendSettles(lane, token) ==
  /\ loops[token][lane].pc = "awaitSend"
  /\ \E o \in SendOutcomes(lane, token) :
       /\ Serve(token, o)
       /\ Commit(afterSend(Cur, lane, token, o))
       /\ lastCall' = IF /\ o.kind = "error"
                         /\ isActiveRun(Cur, token)
                         /\ isInsufficientFundsError(o.message)
                        THEN "fundsStop" ELSE "loop"
  /\ UNCHANGED <<now, latencies>>

\* The confirm request of a loop settles and the loop runs to its next await.
ConfirmSettles(lane, token) ==
  /\ loops[token][lane].pc = "awaitConfirm"
  /\ \E o \in ConfirmOutcomes(lane, token) :
       /\ Serve(token, o)
       /\ Commit(afterConfirm(Cur, lane, token, o))
       /\ lastCall' = IF o.kind = "error" THEN "pollFailed" ELSE "loop"
  /\ latencies' =
       IF lanes'[lane].confirmationsObserved = lanes[lane].confirmationsObserved
         THEN latencies
         ELSE [latencies EXCEPT
                 ![lane] = Append(@, now - loops[token][lane].sendStartAt)]
  /\ now' = now

\* sleep(40) after a failed send is over.
RetryWake(lane, token) ==
  /\ loops[token][lane].pc = "sleepRetry"
  /\ Commit(loopTop(Cur, lane, token))
  /\ lastCall' = "loop"
  /\ UNCHANGED <<now, served, latencies>>

\* sleep(CONFIRM_POLL_MS) after an unconfirmed poll is over.
PollWake(lane, token) ==
  /\ loops[token][lane].pc = "sleepPoll"
  /\ Commit(pollTop(Cur, lane, token))
  /\ lastCall' = "loop"
  /\ UNCHANGED <<now, served, latencies>>

\* The timeout set by scheduleLaneSendAnimation fires.
sendAnimationCallback(c, tm) ==
  LET c1 == [c EXCEPT !.animationTimers = @ \ {tm}]
  IN  IF ~isActiveRun(c1, tm.token)
        THEN c1
        ELSE updateLane(c1, tm.lane,
               [c1.lanes[tm.lane] EXCEPT !.sendAnimationTick = @ + 1])

AnimationFires ==
  \E tm \in animationTimers :
    /\ Commit(sendAnimationCallback(Cur, tm))
    /\ lastCall' = "animation"
    /\ UNCHANGED <<now, served, latencies>>

\* A click on Dismiss in the out-of-gas dialog.
DismissFatal ==
  /\ fatalErrorMessage # NullStr
  /\ Commit([Cur EXCEPT !.fatalErrorMessage = NullStr])
  /\ lastCall' = "dismiss"
  /\ UNCHANGED <<now, served, latencies>>

\* Time passes while an auto-stop timeout is pending, at most up to its due time.
\* The short sleeps (40 ms, 90 ms) and the animation delays are below the clock's
\* resolution: their callbacks run at any later moment.
Tick ==
  /\ timeouts # {}
  /\ \A tm \in timeouts : tm.due > now
  /\ LET due == CHOOSE d \in {tm.due : tm \in timeouts} :
                  \A tm \in timeouts : d <= tm.due
     IN  now' = IF now + TickMs < due THEN now + TickMs ELSE due
  /\ lastCall' = "tick"
  /\ UNCHANGED <<raceVars, streamVars, compVars, served, serverVars, apiVars, statusChanges, latencies>>

vars == <<compVars, served, now, lastCall, statusChanges, latencies, serverVars, apiVars,
         raceVars, streamVars>>

ServerInit ==
  /\ ops = <<>>
  /\ sendTransactionQueue = 0
  /\ started = <<>>
  /\ nonceNext = 0
  /\ sourceNonce = 0
  /\ walletCalls = <<>>

\* The stream of a start request when start(controller) has returned: the race
\* is launched with the signal of a new AbortController, handleRequestAbort
\* listens on request.signal, and nothing is enqueued.
StreamInit ==
  /\ closed = FALSE
  /\ runAbortController = "live"
  /\ abortListener = TRUE
  /\ requestAborted = FALSE
  /\ streamState = "readable"
  /\ controllerCalls = <<>>
  /\ race = "pending"
  /\ emitted = 0

\* No request is being handled by a route, and no call into the library made.
NoRequest == [route |-> "none"]

NoCall == [fn |-> "none"]

ApiInit ==
  /\ issued = {}
  /\ request = NoRequest
  /\ response = NoRequest
  /\ coreCall = NoCall

\* The state after the module is loaded and the component is mounted, but for
\* the environment.
InitState ==
  /\ StreamInit
  /\ wakeAt = [l \in Lanes |-> 0]
  /\ upsets = 0
  /\ late = {}
  /\ ApiInit
  /\ ServerInit
  /\ isRunning = FALSE
  /\ lanes = INITIAL_LANES
  /\ fatalErrorMessage = NullStr
  /\ runToken = 0
  /\ runDeadline = NullNum
  /\ stopTimerRef = NullNum
  /\ animationTimers = {}
  /\ inFlightRequests = {}
  /\ timeouts = {}
  /\ loops = [t \in Tokens |-> [l \in Lanes |-> NoLoop]]
  /\ stoppedRuns = {}
  /\ served = 0
  /\ now = 0
  /\ lastCall = "init"
  /\ statusChanges = <<>>
  /\ latencies = NoLatencies

\* The process in live mode, with the default tag.
Init ==
  /\ spoofTransactions = FALSE
  /\ flashblocksBlockTag = "pending"
  /\ InitState

Next ==
  \/ StartRun
  \/ StopRun
  \/ AutoStop
  \/ \E l \in Lanes, t \in Tokens : SendSettles(l, t)
  \/ \E l \in Lanes, t \in Tokens : ConfirmSettles(l, t)
  \/ \E l \in Lanes, t \in Tokens : RetryWake(l, t)
  \/ \E l \in Lanes, t \in Tokens : PollWake(l, t)
  \/ AnimationFires
  \/ DismissFatal
  \/ Tick

Spec == Init /\ [][Next]_vars

\* An auto-stop timeout is due: AutoStop can fire. This is ENABLED <<AutoStop>>_vars,
\* as stopRun always changes the token.
AutoStopDue == \E tm \in timeouts : tm.due <= now

\* The clock advances and a due timeout fires: the fairness the browser's timers
\* give. The second conjunct is weak fairness of AutoStop, with its enabling
\* condition written out as the state predicate AutoStopDue.
FairSpec ==
  Spec /\ WF_vars(Tick) /\ ([]<>(~AutoStopDue) \/ []<><<AutoStop>>_vars)

\* ------------------------------------------------- the lane metrics on their own

\* The latencies (performance.now() - sendStartAt, in ms) a confirmed cycle is
\* given here.
LatencySamples == {0, 180, 205, 1990}

\* A cycle of a lane is confirmed with some latency: the confirmed updater is
\* applied to the lane, whatever happened in the cycle before.
ConfirmedCycle(lane) ==
  /\ Len(latencies[lane]) < MaxConfirmations
  /\ \E latencyMs \in LatencySamples :
       /\ lanes' = [lanes EXCEPT ![lane] = recordConfirmation(lanes[lane], latencyMs,
                                                              ConfirmedMethodOf(lane))]
       /\ latencies' = [latencies EXCEPT ![lane] = Append(@, latencyMs)]
  /\ lastCall' = "loop"
  /\ UNCHANGED <<raceVars, streamVars, isRunning, fatalErrorMessage, runToken, runDeadline, stopTimerRef,
                 animationTimers, inFlightRequests, timeouts, loops, stoppedRuns,
                 served, now, statusChanges, serverVars, apiVars>>

\* The next run begins: startRun resets the lanes.
NewRunMetrics ==
  /\ latencies # NoLatencies
  /\ lanes' = resetLanes(Cur).lanes
  /\ latencies' = NoLatencies
  /\ lastCall' = "startRun"
  /\ UNCHANGED <<raceVars, streamVars, isRunning, fatalErrorMessage, runToken, runDeadline, stopTimerRef,
                 animationTimers, inFlightRequests, timeouts, loops, stoppedRuns,
                 served, now, statusChanges, serverVars, apiVars>>

MetricsNext ==
  \/ \E lane \in Lanes : ConfirmedCycle(lane)
  \/ NewRunMetrics

MetricsSpec == Init /\ [][MetricsNext]_vars

\* ------------------------------------------------- properties of the run controller

StopCalls == {"stopRun", "autoStop", "fundsStop"}

Suspended == {"awaitSend", "awaitConfirm", "sleepRetry", "sleepPoll"}

AllStopped == \A l \in Lanes : lanes[l].status = "stopped"

\* The loop of run t and lane l issues a request in this step: it ends the step
\* with a pending fetch that it did not have, or at another await than before,
\* or having counted one more send.
Issues(t, l) ==
  /\ loops'[t][l].req = "pending"
  /\ \/ loops[t][l].req # "pending"
     \/ loops'[t][l].pc # loops[t][l].pc
     \/ t = runToken' /\ lanes'[l].sendsAttempted = lanes[l].sendsAttempted + 1

\* The tokens t with isActiveRun(t).
LiveTokens == {t \in 0..(MaxToken + 1) : isActiveRun(Cur, t)}

\* C1: once stopRun has returned for a run (manual stop, auto-stop timeout or the
\* stop after an insufficient-funds failure), no lane loop of that run issues a
\* send or confirm request in any later step, whatever settles, wakes or fires
\* and also while a later run is live.
C1_NoRequestAfterStop ==
  [][\A t \in stoppedRuns' \cap Tokens : \A l \in Lanes : ~Issues(t, l)]_vars

\* A loop of a stopped run is still suspended while a later run is live.
C1_Witness ==
  /\ isActiveRun(Cur, runToken)
  /\ \E t \in stoppedRuns \cap Tokens : \E l \in Lanes : loops[t][l].pc \in Suspended

C3_AutoStopHalts ==
  /\ [](isRunning => timeouts = {[id |-> runToken, due |-> runDeadline]})
  /\ [][/\ lastCall' = "startRun" => runDeadline' = now + MAX_RUNTIME_MS
        /\ lastCall' = "autoStop" =>
             /\ isRunning /\ now >= runDeadline
             /\ runToken' = runToken + 1
             /\ runDeadline' = NullNum
             /\ ~isRunning'
             /\ AllStopped']_vars
  /\ (isRunning ~> AllStopped)

\* The auto-stop timeout has just halted a run that nothing stopped earlier.
C3_Witness ==
  /\ lastCall = "autoStop"
  /\ now >= MAX_RUNTIME_MS
  /\ AllStopped

\* C4: when stopRun returns the token is one higher, the deadline is null, no
\* auto-stop timeout is armed, every request that was tracked is aborted, no
\* request is pending or tracked, and both lanes are 'stopped'.
C4_StopPostcondition ==
  [][lastCall' \in StopCalls =>
       /\ runToken' = runToken + 1
       /\ runDeadline' = NullNum
       /\ stopTimerRef' = NullNum
       /\ timeouts' = {}
       /\ inFlightRequests' = {}
       /\ \A t \in Tokens : \A l \in Lanes :
            /\ loops'[t][l].req # "pending"
            /\ (<<t, l>> \in inFlightRequests /\ loops'[t][l].pc # "done")
                 => loops'[t][l].req = "aborted"
       /\ AllStopped']_vars

\* stopRun has just returned and left a request aborted.
C4_Witness ==
  /\ lastCall \in StopCalls
  /\ \E t \in Tokens : \E l \in Lanes : loops[t][l].req = "aborted"

\* C5: between the return of stopRun and the next start, no step changes a
\* lane: a loop or send-animation timeout that resumes writes nothing.
C5_LanesFrozenAfterStop ==
  [][(~isRunning /\ stoppedRuns # {} /\ lastCall' # "startRun") => lanes' = lanes]_vars

\* A loop has resumed after the stop of its run, with no run on, and another
\* loop of a stopped run is still to resume.
C5_Witness ==
  /\ ~isRunning
  /\ lastCall = "loop"
  /\ \E t \in stoppedRuns \cap Tokens : \E l \in Lanes : loops[t][l].pc = "done"
  /\ \E l \in Lanes : lanes[l].sendsAttempted > 0

\* The lanes as startRun leaves them: the baseline, and the first send under way.
StartedLane == [INITIAL_LANE EXCEPT !.status = "sending", !.sendsAttempted = 1]

\* startRun has begun a new run in this step: the token is one higher, the lanes
\* are reset and both loops of the new token are at their first send.
BeginsNewRun ==
  /\ runToken' = runToken + 1
  /\ LiveTokens' = {runToken'}
  /\ lanes' = [l \in Lanes |-> StartedLane]
  /\ \A l \in Lanes : /\ loops'[runToken'][l].pc = "awaitSend"
                      /\ loops'[runToken'][l].req = "pending"

\* A loop of an earlier token that resumes in this step exits, and writes no lane.
StaleLoopsExit ==
  \A t \in Tokens : \A l \in Lanes :
    (t < runToken /\ loops[t][l].pc \in Suspended /\ loops'[t][l] # loops[t][l])
      => loops'[t][l] = DoneLoop /\ lanes' = lanes

\* C6 as claimed: a call of start while a run is on begins a new run that
\* supersedes the first one.
C6_StartSupersedesActiveRun ==
  [][(isRunning /\ lastCall' \in {"startRun", "startRunIgnored"}) => BeginsNewRun]_vars

\* C6 as amended: a call of start while a run is on changes nothing, the run
\* goes on with its token, lanes, timeout and loops; a start begins a new run only
\* when no run is on, and then the loops of earlier runs exit at their next
\* resumption without finishing their cycle.
C6_StartIgnoredWhileRunning ==
  [][/\ (isRunning /\ lastCall' \in {"startRun", "startRunIgnored"})
          => (lastCall' = "startRunIgnored" /\ UNCHANGED compVars)
     /\ lastCall' = "startRun" => (~isRunning /\ BeginsNewRun)
     /\ StaleLoopsExit]_vars

\* start was called during the second run, while a loop of the first run, which
\* that second run superseded, is still suspended.
C6_Witness ==
  /\ lastCall = "startRunIgnored"
  /\ isActiveRun(Cur, runToken)
  /\ \E t \in Tokens : \E l \in Lanes : t < runToken /\ loops[t][l].pc \in Suspended

\* What stopRun may change when no run is on: nothing but the token (and the
\* record of stopped tokens).
StopKeepsRest ==
  /\ runToken' = runToken + 1
  /\ UNCHANGED <<isRunning, fatalErrorMessage, runDeadline, stopTimerRef,
                 animationTimers, inFlightRequests, timeouts, loops>>

\* C7 as claimed: stopRun with no run on, before any start or after a stop,
\* changes the token and nothing else; the lanes, status included, stay as they were.
C7_StopIdempotent ==
  [][(~isRunning /\ lastCall' = "stopRun") => (StopKeepsRest /\ lanes' = lanes)]_vars

\* C7 as amended: stopRun again after a stop changes the token and nothing else;
\* stopRun before any start also sets the status of both lanes, 'idle' until
\* then, to 'stopped', and leaves their other fields as they were.
C7_StopIdempotentAfterStop ==
  [][(~isRunning /\ lastCall' = "stopRun") =>
       /\ StopKeepsRest
       /\ lanes' = [l \in Lanes |-> [lanes[l] EXCEPT !.status = "stopped"]]
       /\ stoppedRuns # {} => lanes' = lanes
       /\ stoppedRuns = {} => (lanes = INITIAL_LANES /\ lanes' # lanes)]_vars

\* stopRun was called twice in a row after a run that had sent.
C7_Witness ==
  /\ lastCall = "stopRun"
  /\ \E t \in stoppedRuns : t + 1 \in stoppedRuns /\ t + 2 = runToken
  /\ \E l \in Lanes : lanes[l].sendsAttempted > 0

\* C8: a start with no run on leaves every field of both lanes at the baseline
\* but for the first send ('sending', sendsAttempted = 1), whatever the lanes
\* held; exactly one auto-stop timeout is pending, the one it armed; both loops
\* run on the one new token.
C8_StartResets ==
  [][lastCall' = "startRun" =>
       /\ ~isRunning /\ isRunning'
       /\ BeginsNewRun
       /\ stopTimerRef' = runToken'
       /\ timeouts' = {[id |-> runToken', due |-> now + MAX_RUNTIME_MS]}
       /\ inFlightRequests' = {<<runToken', l>> : l \in Lanes}
       /\ \A t \in Tokens : t # runToken' => loops'[t] = loops[t]]_vars

\* A run has just been started after an earlier run whose loops had run.
C8_Witness ==
  /\ lastCall = "startRun"
  /\ \A l \in Lanes : lanes[l] = StartedLane
  /\ \E t \in stoppedRuns \cap Tokens : \E l \in Lanes : loops[t][l].pc # "none"

\* ------------------------------------------------- properties of the lane loops

InsufficientFundsMessage == "insufficient funds for gas * price + value"

OtherLane(lane) == CHOOSE l \in Lanes : l # lane

\* The loop of run t and lane l resumes in this step from the await of its send
\* request and records the message m as the lane's lastError.
RecordsSendError(t, l, m) ==
  /\ loops[t][l].pc = "awaitSend"
  /\ loops'[t][l] # loops[t][l]
  /\ lanes[l].lastError = NullStr
  /\ lanes'[l].lastError = m

\* C14: when a send of a live run fails for insufficient funds, the lane goes
\* from 'sending' to 'error', keeps the message in lastError, and the whole run
\* is stopped in the same step: both
\* lanes end 'stopped', the request of the other lane is aborted, the fatal
\* notification names the lane, the failing loop has returned; and while no run
\* is on no loop issues a request.
C14_InsufficientFundsStopsRun ==
  [][/\ \A t \in Tokens : \A l \in Lanes :
          RecordsSendError(t, l, InsufficientFundsMessage) =>
            /\ t = runToken /\ isRunning
            /\ runToken' = runToken + 1 /\ runDeadline' = NullNum
            /\ ~isRunning'
            /\ AllStopped'
            /\ fatalErrorMessage' = l
            /\ statusChanges' = <<[lane |-> l, from |-> "sending", to |-> "error"]>>
            /\ loops'[t][l] = DoneLoop
            /\ inFlightRequests' = {}
            /\ loops[t][OtherLane(l)].req = "pending"
                 => loops'[t][OtherLane(l)].req = "aborted"
            /\ lanes'[OtherLane(l)] = [lanes[OtherLane(l)] EXCEPT !.status = "stopped"]
     /\ (~isRunning /\ lastCall' # "startRun") =>
          \A t \in Tokens : \A l \in Lanes : ~Issues(t, l)]_vars

\* A run was stopped for insufficient funds while the other lane had a request
\* in flight, which is aborted and not yet settled.
C14_Witness ==
  /\ lastCall = "fundsStop"
  /\ \E l \in Lanes :
       /\ fatalErrorMessage = l
       /\ lanes[l].lastError = InsufficientFundsMessage
       /\ loops[runToken - 1][OtherLane(l)].req = "aborted"

\* C15: when a send of a live run fails with another error, the lane keeps the
\* message in lastError, is in 'error' and its loop sleeps SEND_RETRY_MS; the
\* run, the other lane and its loop are untouched. When the sleep is over and
\* the run is still live the loop sends again: sendsAttempted is one higher,
\* lastError is null, the lane is 'sending'; otherwise it returns.
C15_OtherSendErrorRetries ==
  [][\A t \in Tokens : \A l \in Lanes :
       /\ (\E m \in SendErrorMessages \ {InsufficientFundsMessage} :
             RecordsSendError(t, l, m)) =>
            /\ lanes'[l] = [lanes[l] EXCEPT !.status = "error",
                                           !.lastError = lanes'[l].lastError]
            /\ loops'[t][l].pc = "sleepRetry" /\ loops'[t][l].sleepMs = SEND_RETRY_MS
            /\ UNCHANGED <<isRunning, runToken, runDeadline, stopTimerRef, timeouts,
                           fatalErrorMessage>>
            /\ lanes'[OtherLane(l)] = lanes[OtherLane(l)]
            /\ loops'[t][OtherLane(l)] = loops[t][OtherLane(l)]
       /\ (loops[t][l].pc = "sleepRetry" /\ loops'[t][l] # loops[t][l]) =>
            IF t = runToken /\ runDeadline # NullNum /\ now < runDeadline
              THEN /\ lanes'[l] = [lanes[l] EXCEPT !.status = "sending",
                                                  !.sendsAttempted = @ + 1,
                                                  !.lastError = NullStr]
                   /\ lanes[l].status = "error"
                   /\ loops'[t][l].pc = "awaitSend" /\ loops'[t][l].req = "pending"
              ELSE loops'[t][l] = DoneLoop /\ lanes' = lanes]_vars

\* A lane has sent again after a failed send, while the run is on.
C15_Witness ==
  /\ isRunning
  /\ lastCall = "loop"
  /\ \E l \in Lanes :
       /\ lanes[l].sendsAttempted = 2
       /\ lanes[l].confirmationsObserved = 0
       /\ lanes[l].status = "sending"
       /\ loops[runToken][l].pc = "awaitSend"

\* The run of token t is live: what isActiveRun(t) is meant to tell.
Live(t) == t = runToken /\ runDeadline # NullNum /\ now < runDeadline

\* C16: a confirm request of a live run that fails leaves both lanes as they
\* are, the polling lane in 'waiting' with lastError null and sendsAttempted
\* unchanged; the loop sleeps CONFIRM_POLL_MS and then, the run still live, polls
\* the transaction hash it polled before.
C16_PollFailureSwallowed ==
  [][\A t \in Tokens : \A l \in Lanes :
       /\ (/\ lastCall' = "pollFailed"
           /\ loops[t][l].pc = "awaitConfirm" /\ loops'[t][l] # loops[t][l]
           /\ Live(t)) =>
            /\ lanes' = lanes
            /\ lanes'[l].status = "waiting" /\ lanes'[l].lastError = NullStr
            /\ loops'[t][l].pc = "sleepPoll" /\ loops'[t][l].sleepMs = CONFIRM_POLL_MS
            /\ loops'[t][l].txHash = loops[t][l].txHash
            /\ UNCHANGED <<isRunning, runToken, fatalErrorMessage>>
       /\ (loops[t][l].pc = "sleepPoll" /\ loops'[t][l] # loops[t][l] /\ Live(t)) =>
            /\ loops'[t][l].pc = "awaitConfirm" /\ loops'[t][l].req = "pending"
            /\ loops'[t][l].polled = loops[t][l].polled
            /\ loops'[t][l].polled = lanes[l].sendsAttempted
            /\ lanes' = lanes /\ lanes[l].status = "waiting"]_vars

\* A poll of a live run has just failed: its loop sleeps before the next poll.
C16_Witness ==
  /\ lastCall = "pollFailed"
  /\ Live(runToken)
  /\ \E l \in Lanes :
       /\ loops[runToken][l].pc = "sleepPoll"
       /\ loops[runToken][l].polled = lanes[l].sendsAttempted
       /\ lanes[l].status = "waiting"

\* C17: a loop that resumes from a request that was aborted, or from a request
\* of a run that is no longer live, returns and writes no lane: no lastError,
\* no 'error', no fatal notification.
C17_AbortIsSilent ==
  [][\A t \in Tokens : \A l \in Lanes :
       (/\ loops[t][l].pc \in {"awaitSend", "awaitConfirm"}
        /\ loops'[t][l].pc # loops[t][l].pc
        /\ loops[t][l].req = "aborted" \/ ~Live(t)) =>
         /\ loops'[t][l] = DoneLoop
         /\ lanes' = lanes
         /\ fatalErrorMessage' = fatalErrorMessage]_vars

\* A loop has returned from an aborted request after the stop of its run; the
\* lanes are 'stopped' with no lastError.
C17_Witness ==
  /\ lastCall = "loop"
  /\ ~isRunning
  /\ \E t \in stoppedRuns \cap Tokens : \E l \in Lanes :
       /\ loops[t][l] = DoneLoop
       /\ loops[t][OtherLane(l)].req = "aborted"
  /\ \A l \in Lanes : lanes[l].status = "stopped" /\ lanes[l].lastError = NullStr

\* The status changes a lane loop may make.
LoopTransitions ==
  {<<"idle", "sending">>, <<"sending", "waiting">>, <<"sending", "error">>,
   <<"waiting", "error">>, <<"waiting", "confirmed">>, <<"confirmed", "sending">>,
   <<"error", "sending">>}

\* The status changes of lane l in the last step, in order.
ChangesOf(l) ==
  LET Mine(ch) == ch.lane = l IN SelectSeq(statusChanges, Mine)

\* C18: every status change a lane loop makes is one of LoopTransitions, each
\* change starts from the status the change before it led to, and a change to
\* 'confirmed' made while the run is live is followed at once by the change to
\* 'sending'; at rest a lane of a live run is never 'idle' or 'confirmed'.
C18_LoopTransitions ==
  /\ \A i \in 1..Len(statusChanges) :
       <<statusChanges[i].from, statusChanges[i].to>> \in LoopTransitions
  /\ \A l \in Lanes :
       LET cs == ChangesOf(l) IN
       /\ \A i \in 1..(Len(cs) - 1) : cs[i + 1].from = cs[i].to
       /\ \A i \in 1..Len(cs) :
            (cs[i].to = "confirmed" /\ Live(runToken)) =>
              (i < Len(cs) /\ cs[i + 1].to = "sending")
       /\ (Len(cs) > 0 /\ isRunning) => lanes[l].status = cs[Len(cs)].to
       /\ Live(runToken) => lanes[l].status \in {"sending", "waiting", "error"}

\* A lane has just been confirmed and has gone on to its next send.
C18_Witness ==
  \E l \in Lanes :
    /\ ChangesOf(l) = <<[lane |-> l, from |-> "waiting", to |-> "confirmed"],
                        [lane |-> l, from |-> "confirmed", to |-> "sending"]>>
    /\ lanes[l].confirmationsObserved = 1
    /\ lanes[l].sendsAttempted = 2

\* The requests of lane l that are outstanding, by the token of their loop.
Outstanding(l) == {t \in Tokens : loops[t][l].req = "pending"}

\* C19: a lane has at most one request outstanding, the one its loop awaits,
\* and the tracked controllers are those of the outstanding requests; a loop
\* issues a send only at the start of its run, after the sleep that follows a
\* failed send, or on the answer that reports its transaction confirmed; it
\* issues a poll only on the answer to its send or after the sleep that follows
\* a poll.
C19_LaneSequential ==
  /\ [](/\ \A l \in Lanes : Cardinality(Outstanding(l)) <= 1
        /\ inFlightRequests = {<<t, l>> : t \in Tokens, l \in Lanes} \cap
                              {r \in Tokens \X Lanes : loops[r[1]][r[2]].req = "pending"}
        /\ \A t \in Tokens : \A l \in Lanes :
             loops[t][l].req = "pending" => loops[t][l].pc \in {"awaitSend", "awaitConfirm"})
  /\ [][\A t \in Tokens : \A l \in Lanes :
          /\ (Issues(t, l) /\ loops'[t][l].pc = "awaitSend") =>
               \/ lastCall' = "startRun" /\ loops[t][l].pc = "none"
               \/ /\ loops[t][l].pc = "sleepRetry"
                  /\ lanes[l].status = "error" /\ lanes[l].lastError # NullStr
               \/ /\ loops[t][l].pc = "awaitConfirm"
                  /\ lanes'[l].confirmationsObserved = lanes[l].confirmationsObserved + 1
          /\ (Issues(t, l) /\ loops'[t][l].pc = "awaitConfirm") =>
               /\ loops[t][l].pc \in {"awaitSend", "sleepPoll"}
               /\ lanes'[l].sendsAttempted = lanes[l].sendsAttempted
               /\ loops'[t][l].polled = lanes[l].sendsAttempted]_vars

\* A lane is in its second cycle after a confirmation while the other lane is
\* still polling in its first.
C19_Witness ==
  \E l \in Lanes :
    /\ runToken \in Tokens
    /\ loops[runToken][l].pc = "awaitSend" /\ loops[runToken][l].req = "pending"
    /\ lanes[l].confirmationsObserved = 1 /\ lanes[l].sendsAttempted = 2
    /\ loops[runToken][OtherLane(l)].pc \in {"awaitSend", "awaitConfirm"}
    /\ inFlightRequests = {<<runToken, l>>, <<runToken, OtherLane(l)>>}

RECURSIVE SumOf(_)
SumOf(seq) == IF seq = <<>> THEN 0 ELSE seq[1] + SumOf(Tail(seq))

\* The average a lane shows, as a fraction <<num, den>> (0 for null).
AverageOf(laneState) ==
  IF laneState.averageLatencyMs = NullAvg THEN <<0, 1>> ELSE laneState.averageLatencyMs

\* C20: after N >= 1 confirmed cycles of a lane in one run with latencies l1..lN,
\* averageLatencyMs is (l1 + ... + lN) / N, latestLatencyMs is lN and
\* confirmationsObserved is N; and every confirmation makes the average
\* (oldAvg * oldCount + latency) / (oldCount + 1). The averages are exact
\* fractions in lowest terms, and the second part is stated by cross-multiplication.
C20_RunningMean ==
  /\ [](\A l \in Lanes :
          LET N == Len(latencies[l]) IN
          N >= 1 =>
            /\ lanes[l].averageLatencyMs = Reduce(SumOf(latencies[l]), N)
            /\ lanes[l].averageLatencyMs[1] * N = SumOf(latencies[l]) * lanes[l].averageLatencyMs[2]
            /\ lanes[l].latestLatencyMs = latencies[l][N]
            /\ lanes[l].confirmationsObserved = N)
  /\ [][\A l \in Lanes :
          Len(latencies'[l]) = Len(latencies[l]) + 1 =>
            LET oldAvg == AverageOf(lanes[l])
                oldCount == lanes[l].confirmationsObserved
                latency == latencies'[l][Len(latencies'[l])]
                newAvg == lanes'[l].averageLatencyMs
            IN  /\ newAvg[2] > 0
                /\ newAvg[1] * (oldAvg[2] * (oldCount + 1))
                     = (oldAvg[1] * oldCount + latency * oldAvg[2]) * newAvg[2]]_vars

\* Three cycles of a lane were confirmed with different latencies, whose mean is
\* not a whole number, while the other lane has its own confirmations.
C20_Witness ==
  \E l \in Lanes :
    /\ latencies[l] = <<180, 1990, 205>>
    /\ lanes[l].averageLatencyMs = <<2375, 3>>
    /\ lanes[l].latestLatencyMs = 205
    /\ lanes[l].confirmationsObserved = 3
    /\ Len(latencies[OtherLane(l)]) = 2

\* ======================================================================
\* Part II: the send path of src/lib/demo-tx.ts in live mode
\* ======================================================================

\* Messages the wallet's sendTransaction can fail with, after toLowerCase().
WalletErrorMessages ==
  {"nonce too low", "already known", "insufficient funds for gas * price + value"}

isNonceSyncError(message) ==
  Phrases(message) \cap {"nonce provided for the transaction is lower",
                         "nonce too low", "already known"} # {}

\* The server's state as one record.
CurServer == [ops |-> ops, sendTransactionQueue |-> sendTransactionQueue,
              started |-> started, nonceNext |-> nonceNext,
              sourceNonce |-> sourceNonce]

CommitServer(q) ==
  /\ ops' = q.ops
  /\ sendTransactionQueue' = q.sendTransactionQueue
  /\ started' = q.started
  /\ nonceNext' = q.nonceNext
  /\ sourceNonce' = q.sourceNonce

\* The nonce manager (createNonceManager({ source: jsonRpc() })) is library code;
\* its three operations follow the description of NonceState: the next nonce to
\* use is tracked, advanced by a successful send, and re-read from the source by
\* a reset.
nonceConsume(q) == q.nonceNext

nonceAdvance(q, nonce) ==
  [q EXCEPT !.nonceNext = nonce + 1,
            !.sourceNonce = IF nonce + 1 > @ THEN nonce + 1 ELSE @]

nonceReset(q) == [q EXCEPT !.nonceNext = q.sourceNonce]

\* A new operation, as enqueueSendTransaction receives it.
NewOperation(lane, pred) ==
  [lane |-> lane, pred |-> pred, status |-> "queued", attempts |-> 0,
   resets |-> 0, error |-> NullStr, nonce |-> NullNum]

\* A chain by then(operation) alone: an operation runs only when the promise it
\* is chained on has been fulfilled.
Settled_fulfilledOnly(q, k) == k = 0 \/ q.ops[k].status = "fulfilled"

\* The promise an operation is chained on has settled (0 is Promise.resolve()).
Settled(q, k) == k = 0 \/ q.ops[k].status \in {"fulfilled", "rejected"}

\* The reactions of the promise chain run as microtasks, before the next event:
\* every operation whose predecessor has settled is called, in the order in
\* which the operations were chained.
runReactions(q) ==
  LET Ready(k) == q.ops[k].status = "queued" /\ Settled(q, q.ops[k].pred)
      ids == [k \in 1..Len(q.ops) |-> k]
  IN  [q EXCEPT
         !.ops = [k \in 1..Len(q.ops) |->
                    IF Ready(k)
                      THEN [q.ops[k] EXCEPT !.status = "sending", !.attempts = 1,
                                            !.nonce = nonceConsume(q)]
                      ELSE q.ops[k]],
         !.started = @ \o SelectSeq(ids, Ready)]

\* enqueueSendTransaction that calls the operation at once, outside the queue.
enqueueSendTransaction_unqueued(q, lane) ==
  [q EXCEPT
     !.ops = Append(@, NewOperation(lane, 0)),
     !.sendTransactionQueue = Len(q.ops) + 1]

\* enqueueSendTransaction with one queue per lane: the operation is chained on
\* the last operation of its own lane.
enqueueSendTransaction_perLane(q, lane) ==
  LET mine == {k \in 1..Len(q.ops) : q.ops[k].lane = lane}
      last == IF mine = {} THEN 0 ELSE CHOOSE k \in mine : \A j \in mine : j <= k
  IN  [q EXCEPT
         !.ops = Append(@, NewOperation(lane, last)),
         !.sendTransactionQueue = Len(q.ops) + 1]

\* enqueueSendTransaction: result = sendTransactionQueue.then(operation, operation);
\* sendTransactionQueue = result.then(() => undefined, () => undefined).
enqueueSendTransaction(q, lane) ==
  LET id == Len(q.ops) + 1
  IN  [q EXCEPT
         !.ops = Append(@, NewOperation(lane, q.sendTransactionQueue)),
         !.sendTransactionQueue = id]

\* sendOperation that resets and retries after every nonce error, not only the
\* first one.
sendOperation_retryAgain(q, k, outcome) ==
  IF outcome = "ok"
    THEN nonceAdvance([q EXCEPT !.ops[k].status = "fulfilled"], q.ops[k].nonce)
    ELSE IF isNonceSyncError(outcome)
      THEN LET q1 == nonceReset(q)
           IN  [q1 EXCEPT !.ops[k].attempts = @ + 1, !.ops[k].resets = @ + 1,
                          !.ops[k].nonce = nonceConsume(q1)]
      ELSE [q EXCEPT !.ops[k].status = "rejected", !.ops[k].error = outcome]

\* The operation sendLaneTransaction enqueues, from the settlement of its
\* walletClient.sendTransaction call: outcome is "ok" or an error message.
sendOperation(q, k, outcome) ==
  IF outcome = "ok"
    THEN nonceAdvance([q EXCEPT !.ops[k].status = "fulfilled"], q.ops[k].nonce)
    ELSE IF q.ops[k].attempts = 1 /\ isNonceSyncError(outcome)
      THEN LET q1 == nonceReset(q)
           IN  [q1 EXCEPT !.ops[k].attempts = 2, !.ops[k].resets = @ + 1,
                          !.ops[k].nonce = nonceConsume(q1)]
      ELSE [q EXCEPT !.ops[k].status = "rejected", !.ops[k].error = outcome]

\* The send route answering every failure with its fallback message.
sendRoutePOST_generic(op) ==
  IF op.status = "fulfilled"
    THEN [status |-> 200, error |-> NullStr]
    ELSE [status |-> 500, error |-> "Failed to send transaction"]

\* The response of POST /api/demo/send for a settled operation. The values
\* walletClient.sendTransaction throws are Error objects, so that the route
\* answers with error.message.
sendRoutePOST(op) ==
  IF op.status = "fulfilled"
    THEN [status |-> 200, error |-> NullStr]
    ELSE [status |-> 500, error |-> op.error]

\* POST /api/demo/send reaches sendLaneTransaction(lane), in live mode.
SendLaneTransaction(lane) ==
  /\ ~spoofTransactions
  /\ Len(ops) < MaxOps
  /\ CommitServer(runReactions(enqueueSendTransaction(CurServer, lane)))
  /\ UNCHANGED <<raceVars, streamVars, compVars, apiVars, served, now, lastCall, statusChanges, latencies, walletCalls>>

\* The wallet call of operation k settles.
WalletSettles(k) ==
  /\ ops[k].status = "sending"
  /\ \E outcome \in {"ok"} \cup WalletErrorMessages :
       /\ CommitServer(runReactions(sendOperation(CurServer, k, outcome)))
       /\ walletCalls' = Append(walletCalls, [op |-> k, nonce |-> ops[k].nonce,
                                              outcome |-> outcome])
  /\ UNCHANGED <<raceVars, streamVars, compVars, apiVars, served, now, lastCall, statusChanges, latencies>>

QueueNext ==
  \/ \E lane \in Lanes : SendLaneTransaction(lane)
  \/ \E k \in 1..MaxOps : k <= Len(ops) /\ WalletSettles(k)

QueueSpec == Init /\ [][QueueNext]_vars

\* Every walletClient.sendTransaction call that is in flight settles.
FairQueueSpec ==
  QueueSpec /\ \A k \in 1..MaxOps : WF_vars(k <= Len(ops) /\ WalletSettles(k))

\* ------------------------------------------------- properties of the send queue

\* The operations whose walletClient.sendTransaction call is in flight.
InFlightSends == {k \in 1..Len(ops) : ops[k].status = "sending"}

\* C9: at most one wallet sendTransaction call is in flight, across the lanes
\* and the overlapping requests; an operation that has started has every
\* operation enqueued before it settled, fulfilled or rejected.
C9_OneSendInFlight ==
  /\ Cardinality(InFlightSends) <= 1
  /\ \A k \in 1..Len(ops) :
       ops[k].status # "queued" =>
         \A j \in 1..(k - 1) : ops[j].status \in {"fulfilled", "rejected"}

\* Requests overlap: one send is in flight and two more, of both lanes, wait.
C9_Witness ==
  /\ Len(ops) = 3
  /\ ops[1].status = "sending"
  /\ ops[2].status = "queued" /\ ops[3].status = "queued"
  /\ ops[2].lane # ops[3].lane

\* C10: the operations start in the order in which sendLaneTransaction enqueued
\* them, whichever lane each belongs to and however the earlier ones settled.
C10_GlobalFifo ==
  /\ Len(started) <= Len(ops)
  /\ \A i \in 1..Len(started) : started[i] = i
  /\ \A k \in 1..Len(ops) : ops[k].status # "queued" => k <= Len(started)

\* Three sends of alternating lanes have started, the first one rejected and the
\* second one fulfilled.
C10_Witness ==
  /\ Len(started) = 3
  /\ ops[1].status = "rejected" /\ ops[2].status = "fulfilled"
  /\ ops[1].lane # ops[2].lane /\ ops[2].lane # ops[3].lane

\* ------------------------------------------------- properties of the nonce retry

\* The settled wallet calls of operation k, in order.
CallsOf(k) ==
  LET Mine(c) == c.op = k IN SelectSeq(walletCalls, Mine)

\* C11: a first wallet call that fails with a nonce-synchronization error is
\* followed by one reset of the nonce state and one second call; whatever the
\* second call fails with, a nonce error too, rejects the operation with that
\* error; no operation makes a third call or a second reset.
C11_NonceRetryOnce ==
  \A k \in 1..Len(ops) :
    LET cs == CallsOf(k) IN
    /\ Len(cs) <= 2 /\ ops[k].attempts <= 2 /\ ops[k].resets <= 1
    /\ (Len(cs) >= 1 /\ isNonceSyncError(cs[1].outcome)) =>
         /\ ops[k].resets = 1 /\ ops[k].attempts = 2
         /\ Len(cs) = 1 => (ops[k].status = "sending" /\ ops[k].nonce = sourceNonce)
    /\ Len(cs) = 2 =>
         /\ isNonceSyncError(cs[1].outcome)
         /\ cs[2].outcome = "ok" => ops[k].status = "fulfilled"
         /\ cs[2].outcome # "ok" =>
              (ops[k].status = "rejected" /\ ops[k].error = cs[2].outcome)

\* An operation was rejected after two nonce errors in a row.
C11_Witness ==
  \E k \in 1..Len(ops) :
    /\ Len(CallsOf(k)) = 2
    /\ isNonceSyncError(CallsOf(k)[2].outcome)
    /\ ops[k].status = "rejected"

\* C12: a first wallet call that fails with another error than a
\* nonce-synchronization error rejects the operation with that error: one call,
\* no reset; and the send route answers 500 with the message of that error, so
\* that the caller classifies the response as it would the error.
C12_OtherErrorsRethrown ==
  \A k \in 1..Len(ops) :
    LET cs == CallsOf(k) IN
    (Len(cs) >= 1 /\ cs[1].outcome # "ok" /\ ~isNonceSyncError(cs[1].outcome)) =>
      /\ Len(cs) = 1
      /\ ops[k].status = "rejected"
      /\ ops[k].attempts = 1 /\ ops[k].resets = 0
      /\ ops[k].error = cs[1].outcome
      /\ sendRoutePOST(ops[k]) = [status |-> 500, error |-> cs[1].outcome]
      /\ isInsufficientFundsError(sendRoutePOST(ops[k]).error)
           = isInsufficientFundsError(cs[1].outcome)

\* A send was rejected for insufficient funds at its first call, and the next
\* operation has started.
C12_Witness ==
  /\ Len(started) >= 2
  /\ ops[1].status = "rejected"
  /\ Len(CallsOf(1)) = 1
  /\ isInsufficientFundsError(sendRoutePOST(ops[1]).error)

\* The wallet calls that succeeded, in the order in which they settled.
SuccessfulCalls ==
  LET Ok(c) == c.outcome = "ok" IN SelectSeq(walletCalls, Ok)

\* C13: of two sends that succeed one after the other, from either lane and
\* however the requests overlap, the second has the nonce of the first plus one.
C13_ConsecutiveNonces ==
  \A i \in 1..(Len(SuccessfulCalls) - 1) :
    SuccessfulCalls[i + 1].nonce = SuccessfulCalls[i].nonce + 1

\* Two sends of different lanes, enqueued while an earlier send was in flight,
\* have both succeeded.
C13_Witness ==
  /\ Len(SuccessfulCalls) >= 2
  /\ \E i \in 1..(Len(SuccessfulCalls) - 1) :
       /\ ops[SuccessfulCalls[i].op].lane # ops[SuccessfulCalls[i + 1].op].lane
       /\ ops[SuccessfulCalls[i + 1].op].pred # 0

\* ======================================================================
\* Part III: the spoof engine, the confirmation strategies and the routes
\* ======================================================================

\* --------------------------------------------------------------- strings

\* A string is a sequence of one-character strings.
HexChars == <<"0", "1", "2", "3", "4", "5", "6", "7", "8", "9",
              "a", "b", "c", "d", "e", "f">>

UpperHexChars == <<"A", "B", "C", "D", "E", "F">>

IsHexChar(ch) ==
  \/ \E i \in DOMAIN HexChars : HexChars[i] = ch
  \/ \E i \in DOMAIN UpperHexChars : UpperHexChars[i] = ch

\* String.prototype.toLowerCase on the characters that occur here.
toLowerCaseChar(ch) ==
  IF \E i \in DOMAIN UpperHexChars : UpperHexChars[i] = ch
    THEN HexChars[10 + (CHOOSE i \in DOMAIN UpperHexChars : UpperHexChars[i] = ch)]
    ELSE ch

toLowerCase(str) == [i \in DOMAIN str |-> toLowerCaseChar(str[i])]

\* The value of a hexadecimal digit of either case.
DigitValue(ch) ==
  (CHOOSE i \in DOMAIN HexChars : HexChars[i] = toLowerCaseChar(ch)) - 1

\* Number.prototype.toString(16) of an integer.
RECURSIVE toString16(_)
toString16(n) ==
  IF n < 0 THEN <<"-">> \o toString16(0 - n)
  ELSE IF n < 16 THEN <<HexChars[n + 1]>>
  ELSE toString16(n \div 16) \o <<HexChars[(n % 16) + 1]>>

\* padStart that pads nothing.
padStart_short(str, targetLength, pad) == str

\* String.prototype.padStart(targetLength, padString) with a one-character pad.
RECURSIVE padStart(_, _, _)
padStart(str, targetLength, pad) ==
  IF Len(str) >= targetLength THEN str
  ELSE padStart(<<pad>> \o str, targetLength, pad)

\* String.prototype.slice(start, end) with 0 <= start <= end.
slice(str, start, end) ==
  SubSeq(str, start + 1, IF end < Len(str) THEN end ELSE Len(str))

\* String.prototype.slice(-count).
sliceLast(str, count) ==
  IF Len(str) <= count THEN str ELSE SubSeq(str, Len(str) - count + 1, Len(str))

\* The value of the longest prefix of hexadecimal digits of str, and how many
\* characters that prefix has.
RECURSIVE ParseDigits(_, _, _)
ParseDigits(str, value, count) ==
  IF str = <<>> \/ ~IsHexChar(str[1])
    THEN [value |-> value, count |-> count]
    ELSE ParseDigits(Tail(str), value * 16 + DigitValue(str[1]), count + 1)

\* Number.parseInt(str, 16): an optional sign, then the longest prefix of digits;
\* NaN when there is no digit.
parseInt16(str) ==
  LET negative == str # <<>> /\ str[1] = "-"
      digits == IF str # <<>> /\ str[1] \in {"-", "+"} THEN Tail(str) ELSE str
      parsed == ParseDigits(digits, 0, 0)
  IN  IF parsed.count = 0
        THEN [nan |-> TRUE, value |-> 0]
        ELSE [nan |-> FALSE,
              value |-> IF negative THEN 0 - parsed.value ELSE parsed.value]

\* Math.floor of a fraction <<num, den>> with den > 0.
MathFloor(x) == x[1] \div x[2]

\* ------------------------------------------------------------ spoof handles

SPOOF_CONFIRMATION_DELAY_MS_BY_LANE_swapped == [flashblocks |-> 2500, normal |-> 800]
SPOOF_CONFIRMATION_DELAY_MS_BY_LANE == [flashblocks |-> 800, normal |-> 2500]

SPOOF_METHOD_BY_LANE_swapped == [flashblocks |-> "latest", normal |-> "receipt"]
SPOOF_METHOD_BY_LANE == [flashblocks |-> "receipt", normal |-> "latest"]

SPOOF_LANE_CODE == [flashblocks |-> <<"f", "1">>, normal |-> <<"f", "2">>]

\* buildSpoofTxHash that rounds the time up.
buildSpoofTxHash_ceil(lane, createdAtMs, randomHex) ==
  <<"0", "x">> \o SPOOF_LANE_CODE[lane]
    \o sliceLast(padStart(toString16((createdAtMs[1] + createdAtMs[2] - 1)
                                       \div createdAtMs[2]), 12, "0"), 12)
    \o randomHex

\* createdAtMs is a fraction <<num, den>>; randomHex stands for
\* crypto.randomBytes(25).toString('hex').
buildSpoofTxHash(lane, createdAtMs, randomHex) ==
  LET laneCode == SPOOF_LANE_CODE[lane]
      timestampHex == sliceLast(padStart(toString16(MathFloor(createdAtMs)), 12, "0"), 12)
  IN  <<"0", "x">> \o laneCode \o timestampHex \o randomHex

NullSpoofTx == [lane |-> NullStr, createdAtMs |-> 0]

\* The result is NullSpoofTx for null.
parseSpoofTxHash(txHash) ==
  LET raw == toLowerCase(slice(txHash, 2, Len(txHash)))
      laneCode == slice(raw, 0, 2)
      timestampHex == slice(raw, 2, 14)
      lane == IF laneCode = <<"f", "1">> THEN "flashblocks"
              ELSE IF laneCode = <<"f", "2">> THEN "normal"
              ELSE NullStr
      createdAtMs == parseInt16(timestampHex)
  IN  IF lane = NullStr THEN NullSpoofTx
      ELSE IF createdAtMs.nan THEN NullSpoofTx
      ELSE [lane |-> lane, createdAtMs |-> createdAtMs.value]

\* ------------------------------------------------ the chain's answers

\* What the RPC endpoint answers while one confirmation is checked: whether the
\* query of the block and of the receipt fail in the transport, and what they
\* return otherwise. A hash or a block number is a string such as "0x1f"; null is
\* written NullHex.
NullHex == <<>>

NullReceipt == [exists |-> FALSE, blockNumber |-> NullHex]

NullBlock == [exists |-> FALSE, number |-> NullHex, transactions |-> <<>>]

\* hexToNumber of viem, for a string "0x..." of hexadecimal digits.
hexToNumber(hex) == parseInt16(slice(hex, 2, Len(hex))).value

Verdict(confirmed, method, blockNumber) ==
  [kind |-> "ok", confirmed |-> confirmed, method |-> method,
   blockNumber |-> blockNumber, message |-> NullStr]

\* The rejection of publicClient.request when the transport fails.
TransportFailure ==
  [kind |-> "error", confirmed |-> FALSE, method |-> "none",
   blockNumber |-> NullNum, message |-> "HTTP request failed."]

Unconfirmed == Verdict(FALSE, "none", NullNum)

\* The scan that compares the hashes as they are written.
inBlock_exact(block, txHash) ==
  /\ block.exists
  /\ \E i \in DOMAIN block.transactions : block.transactions[i] = txHash

\* block?.transactions?.some(candidate => candidate.toLowerCase() === txHash.toLowerCase()) ?? false
inBlock(block, txHash) ==
  /\ block.exists
  /\ \E i \in DOMAIN block.transactions :
       toLowerCase(block.transactions[i]) = toLowerCase(txHash)

\* The spoof branch that still waits at the moment the delay has elapsed.
spoofConfirmation_strictDelay(lane, txHash, method) ==
  LET spoofTx == parseSpoofTxHash(txHash) IN
  IF spoofTx = NullSpoofTx \/ spoofTx.lane # lane
    THEN Unconfirmed
    ELSE IF now - spoofTx.createdAtMs <= SPOOF_CONFIRMATION_DELAY_MS_BY_LANE[lane]
      THEN Unconfirmed
      ELSE Verdict(TRUE, method, NullNum)

\* The spoof branch of checkLaneConfirmation; method is the tag of a confirmed verdict.
spoofConfirmation(lane, txHash, method) ==
  LET spoofTx == parseSpoofTxHash(txHash) IN
  IF spoofTx = NullSpoofTx \/ spoofTx.lane # lane
    THEN Unconfirmed
    ELSE IF now - spoofTx.createdAtMs < SPOOF_CONFIRMATION_DELAY_MS_BY_LANE[lane]
      THEN Unconfirmed
      ELSE Verdict(TRUE, method, NullNum)

\* checkLaneConfirmation: the flashblocks lane polls the receipt, the normal lane
\* scans the block of NORMAL_BLOCK_TAG.
checkLaneConfirmation(lane, txHash, rpc) ==
  IF spoofTransactions
    THEN spoofConfirmation(lane, txHash, SPOOF_METHOD_BY_LANE[lane])
  ELSE IF lane = "flashblocks"
    THEN IF rpc.receiptFails THEN TransportFailure
         ELSE IF rpc.receipt.exists
           THEN Verdict(TRUE, "receipt",
                        IF rpc.receipt.blockNumber # NullHex
                          THEN hexToNumber(rpc.receipt.blockNumber) ELSE NullNum)
           ELSE Unconfirmed
  ELSE IF rpc.blockFails THEN TransportFailure
  ELSE IF inBlock(rpc.block, txHash)
    THEN Verdict(TRUE, "latest",
                 IF rpc.block.number # NullHex
                   THEN hexToNumber(rpc.block.number) ELSE NullNum)
  ELSE Unconfirmed

\* checkLaneConfirmation as it was before: the flashblocks lane scans the block of
\* flashblocksBlockTag, and both lanes go on to the receipt.
checkLaneConfirmationByTag(lane, txHash, rpc) ==
  IF spoofTransactions
    THEN spoofConfirmation(lane, txHash,
           IF lane = "flashblocks" THEN flashblocksBlockTag ELSE "receipt")
  ELSE IF lane = "flashblocks" /\ rpc.blockFails THEN TransportFailure
  ELSE IF lane = "flashblocks" /\ inBlock(rpc.block, txHash)
    THEN Verdict(TRUE, flashblocksBlockTag,
                 IF rpc.block.number # NullHex
                   THEN hexToNumber(rpc.block.number) ELSE NullNum)
  ELSE IF rpc.receiptFails THEN TransportFailure
  ELSE IF rpc.receipt.exists /\ rpc.receipt.blockNumber # NullHex
    THEN Verdict(TRUE, "receipt", hexToNumber(rpc.receipt.blockNumber))
  ELSE Unconfirmed

\* ------------------------------------------------------------- the routes

\* A value of a JSON body is [type, text] for a lane or a duration and
\* [type, chars] for a hash; type is what typeof gives.
isDemoLane(value) ==
  value.type = "string" /\ value.text \in {"flashblocks", "normal"}

\* typeof value === 'string' && /^0x[0-9a-fA-F]{64}$/.test(value)
isTransactionHash(value) ==
  /\ value.type = "string"
  /\ Len(value.chars) = 66
  /\ value.chars[1] = "0" /\ value.chars[2] = "x"
  /\ \A i \in 3..66 : IsHexChar(value.chars[i])

BadRequest(route, error) ==
  [route |-> route, status |-> 400, error |-> error, confirmed |-> FALSE,
   method |-> "none", blockNumber |-> NullNum, txHash |-> <<>>]

\* The handler threw outside its try blocks, reading a property of null: the
\* server answers for it.
Unhandled(route) ==
  [route |-> route, status |-> 500, error |-> "Internal Server Error",
   confirmed |-> FALSE, method |-> "none", blockNumber |-> NullNum, txHash |-> <<>>]

\* The route that answers a failed query like a transaction not yet found.
ConfirmResponse_swallow(result) ==
  [route |-> "confirm", status |-> 200, error |-> NullStr,
   confirmed |-> result.confirmed, method |-> result.method,
   blockNumber |-> result.blockNumber, txHash |-> <<>>]

\* NextResponse.json(result) of the confirm route, or its catch block.
ConfirmResponse(result) ==
  IF result.kind = "ok"
    THEN [route |-> "confirm", status |-> 200, error |-> NullStr,
          confirmed |-> result.confirmed, method |-> result.method,
          blockNumber |-> result.blockNumber, txHash |-> <<>>]
    ELSE [route |-> "confirm", status |-> 500, error |-> result.message,
          confirmed |-> FALSE, method |-> "none", blockNumber |-> NullNum,
          txHash |-> <<>>]

\* POST /api/demo/confirm: the response, and the call of checkLaneConfirmation the
\* request led to. byTag tells which checkLaneConfirmation is deployed.
confirmRoutePOST(body, rpc, byTag) ==
  IF ~body.json
    THEN [response |-> BadRequest("confirm", "Invalid JSON body"), call |-> NoCall]
  ELSE IF body.isNull
    THEN [response |-> Unhandled("confirm"), call |-> NoCall]
  ELSE IF ~isDemoLane(body.lane)
    THEN [response |-> BadRequest("confirm", "lane must be flashblocks or normal"),
          call |-> NoCall]
  ELSE IF ~isTransactionHash(body.txHash)
    THEN [response |-> BadRequest("confirm", "txHash must be a 32-byte hex string"),
          call |-> NoCall]
  ELSE [response |->
          ConfirmResponse(
            IF byTag
              THEN checkLaneConfirmationByTag(body.lane.text, body.txHash.chars, rpc)
              ELSE checkLaneConfirmation(body.lane.text, body.txHash.chars, rpc)),
        call |-> [fn |-> "checkLaneConfirmation", lane |-> body.lane.text,
                  txHash |-> body.txHash.chars]]

\* POST /api/demo/send in spoof mode, where sendLaneTransaction returns at once.
sendRoutePOSTSpoof(body, randomHex) ==
  IF ~body.json
    THEN [response |-> BadRequest("send", "Invalid JSON body"), call |-> NoCall]
  ELSE IF body.isNull
    THEN [response |-> Unhandled("send"), call |-> NoCall]
  ELSE IF ~isDemoLane(body.lane)
    THEN [response |-> BadRequest("send", "lane must be flashblocks or normal"),
          call |-> NoCall]
  ELSE [response |->
          [route |-> "send", status |-> 200, error |-> NullStr, confirmed |-> FALSE,
           method |-> "none", blockNumber |-> NullNum,
           txHash |-> buildSpoofTxHash(body.lane.text, <<now, 1>>, randomHex)],
        call |-> [fn |-> "sendLaneTransaction", lane |-> body.lane.text]]

\* A duration is [type, finite, value]: value is the fraction <<num, den>> of a
\* finite number.
parseDurationSeconds(value) ==
  /\ value.type = "number" /\ value.finite
  /\ ~(value.value[1] < MIN_DURATION_SECONDS * value.value[2])
  /\ ~(value.value[1] > MAX_DURATION_SECONDS * value.value[2])

\* Math.round of the fraction <<num, den>>: floor(x + 1/2).
MathRound(x) == (2 * x[1] + x[2]) \div (2 * x[2])

\* POST of the start route: parseDurationSeconds is true when it returns a number.
startRoutePOST(body) ==
  IF ~body.json
    THEN [response |-> BadRequest("start", "Invalid JSON body"), call |-> NoCall]
  ELSE IF body.isNull
    THEN [response |-> Unhandled("start"), call |-> NoCall]
  ELSE IF ~parseDurationSeconds(body.durationSeconds)
    THEN [response |-> BadRequest("start", "durationSeconds must be a number between 1 and 60"),
          call |-> NoCall]
  ELSE [response |->
          [route |-> "start", status |-> 200, error |-> NullStr, confirmed |-> FALSE,
           method |-> "none", blockNumber |-> NullNum, txHash |-> <<>>],
        call |-> [fn |-> "runDemoRace",
                  durationMs |-> MathRound(<<body.durationSeconds.value[1] * 1000,
                                             body.durationSeconds.value[2]>>)]]

\* ------------------------------------------------------ requests and time

\* str without its first two characters in upper case: the hash as a client may
\* send it.
toUpperCaseDigits(str) ==
  [i \in DOMAIN str |->
     IF i > 2 /\ (\E k \in 11..16 : HexChars[k] = str[i])
       THEN UpperHexChars[(CHOOSE k \in 11..16 : HexChars[k] = str[i]) - 10]
       ELSE str[i]]

Repeat(ch, count) == [i \in 1..count |-> ch]

\* crypto.randomBytes(25).toString('hex'): 50 digits.
RandomHexSamples == {Repeat("0", 50), <<"f", "2">> \o Repeat("9", 48)}

LaneValues ==
  {[type |-> "string", text |-> "flashblocks"], [type |-> "string", text |-> "normal"],
   [type |-> "string", text |-> "Flashblocks"], [type |-> "number", text |-> "1"],
   [type |-> "undefined", text |-> ""]}

\* A hash of the chain, which is no spoof handle.
ChainTxHash == <<"0", "x">> \o Repeat("a", 62) \o <<"b", "c">>

Undefined == [type |-> "undefined", chars |-> <<>>]

TxHashValues ==
  {[type |-> "string", chars |-> h.txHash] : h \in issued}
  \cup {[type |-> "string", chars |-> toUpperCaseDigits(h.txHash)] : h \in issued}
  \cup {[type |-> "string", chars |-> ChainTxHash],
        [type |-> "string", chars |-> toUpperCaseDigits(ChainTxHash)],
        [type |-> "string", chars |-> SubSeq(ChainTxHash, 1, 65)],
        [type |-> "string", chars |-> SubSeq(ChainTxHash, 3, 66)],
        [type |-> "string", chars |-> <<"0", "x", "f", "1", "g">> \o Repeat("0", 61)],
        [type |-> "number", chars |-> <<>>],
        Undefined}

InvalidJson ==
  [json |-> FALSE, isNull |-> FALSE, lane |-> [type |-> "undefined", text |-> ""],
   txHash |-> Undefined,
   durationSeconds |-> [type |-> "undefined", finite |-> FALSE, value |-> <<0, 1>>]]

\* The body null: JSON that request.json() parses, with no property to read.
JsonNull == [InvalidJson EXCEPT !.json = TRUE, !.isNull = TRUE]

\* The answers of the chain that matter to a check of txHash; in spoof mode the
\* chain is not asked.
QuietRpc ==
  [blockFails |-> FALSE, block |-> NullBlock, receiptFails |-> FALSE,
   receipt |-> NullReceipt]

RpcAnswers(txHash) ==
  [blockFails : BOOLEAN,
   block : {NullBlock,
            [exists |-> TRUE, number |-> <<"0", "x", "1", "f">>,
             transactions |-> <<SubSeq(ChainTxHash, 1, 64) \o <<"0", "0">>>>],
            [exists |-> TRUE, number |-> <<"0", "x", "1", "f">>,
             transactions |-> <<SubSeq(ChainTxHash, 1, 64) \o <<"0", "0">>,
                                toUpperCaseDigits(txHash)>>],
            [exists |-> TRUE, number |-> NullHex, transactions |-> <<toLowerCase(txHash)>>]},
   receiptFails : BOOLEAN,
   receipt : {NullReceipt,
              [exists |-> TRUE, blockNumber |-> NullHex],
              [exists |-> TRUE, blockNumber |-> <<"0", "x", "2", "0">>]}]

\* Date.now() at the moments things happen here.
ClockSamples == {1, 800, 801, 2500, 2501}

\* Time passes between two requests.
ApiTick ==
  /\ request = NoRequest
  /\ \E t \in ClockSamples : t > now /\ now' = t
  /\ UNCHANGED <<raceVars, streamVars, compVars, served, lastCall, statusChanges, latencies, serverVars,
                 apiVars>>

\* A request to POST /api/demo/confirm is handled.
ConfirmRoute(byTag) ==
  /\ request = NoRequest
  /\ \E body \in {InvalidJson, JsonNull} \cup
                 {[json |-> TRUE, isNull |-> FALSE, lane |-> l, txHash |-> h,
                   durationSeconds |-> InvalidJson.durationSeconds] :
                    l \in LaneValues, h \in TxHashValues} :
       \E rpc \in IF spoofTransactions \/ confirmRoutePOST(body, QuietRpc, byTag).call = NoCall
                    THEN {QuietRpc} ELSE RpcAnswers(body.txHash.chars) :
         /\ request' = [route |-> "confirm", body |-> body, rpc |-> rpc,
                        byTag |-> byTag, at |-> now]
         /\ response' = confirmRoutePOST(body, rpc, byTag).response
         /\ coreCall' = confirmRoutePOST(body, rpc, byTag).call
  /\ UNCHANGED <<raceVars, streamVars, compVars, served, now, lastCall, statusChanges, latencies, serverVars,
                 spoofTransactions, flashblocksBlockTag, issued>>

\* A request to POST /api/demo/send is handled, in spoof mode or with a lane the
\* route rejects; the sends of live mode are those of SendLaneTransaction.
SendRoute ==
  /\ request = NoRequest
  /\ \E body \in {InvalidJson, JsonNull} \cup
                 {[json |-> TRUE, isNull |-> FALSE, lane |-> l, txHash |-> Undefined,
                   durationSeconds |-> InvalidJson.durationSeconds] : l \in LaneValues},
        randomHex \in RandomHexSamples :
       LET answer == sendRoutePOSTSpoof(body, randomHex) IN
       /\ spoofTransactions \/ answer.call = NoCall
       /\ answer.call # NoCall => Cardinality(issued) < MaxIssued
       /\ answer.call = NoCall => randomHex = Repeat("0", 50)
       /\ request' = [route |-> "send", body |-> body, rpc |-> QuietRpc,
                      byTag |-> FALSE, at |-> now]
       /\ response' = answer.response
       /\ coreCall' = answer.call
       /\ issued' = IF answer.call = NoCall THEN issued
                    ELSE issued \cup {[lane |-> body.lane.text, createdAtMs |-> now,
                                       randomHex |-> randomHex,
                                       txHash |-> answer.response.txHash]}
  /\ UNCHANGED <<raceVars, streamVars, compVars, served, now, lastCall, statusChanges, latencies, serverVars,
                 spoofTransactions, flashblocksBlockTag>>

DurationValues ==
  {[type |-> "number", finite |-> TRUE, value |-> v] :
     v \in {<<1, 1>>, <<5, 1>>, <<60, 1>>, <<0, 1>>, <<0 - 5, 1>>, <<61, 1>>,
            <<9999, 10000>>, <<600001, 10000>>, <<10005, 10000>>, <<3, 2>>,
            <<10004, 10000>>}}
  \cup {[type |-> "number", finite |-> FALSE, value |-> <<0, 1>>],
        [type |-> "string", finite |-> FALSE, value |-> <<5, 1>>],
        InvalidJson.durationSeconds}

\* A request to the start route is handled.
StartRoute ==
  /\ request = NoRequest
  /\ \E body \in {InvalidJson, JsonNull} \cup
                 {[json |-> TRUE, isNull |-> FALSE, lane |-> InvalidJson.lane, txHash |-> Undefined,
                   durationSeconds |-> d] : d \in DurationValues} :
       /\ request' = [route |-> "start", body |-> body, rpc |-> QuietRpc,
                      byTag |-> FALSE, at |-> now]
       /\ response' = startRoutePOST(body).response
       /\ coreCall' = startRoutePOST(body).call
  /\ UNCHANGED <<raceVars, streamVars, compVars, served, now, lastCall, statusChanges, latencies, serverVars,
                 spoofTransactions, flashblocksBlockTag, issued>>

\* The response has gone out: the histories of the request are over.
ResponseSent ==
  /\ request # NoRequest
  /\ request' = NoRequest /\ response' = NoRequest /\ coreCall' = NoCall
  /\ UNCHANGED <<raceVars, streamVars, compVars, served, now, lastCall, statusChanges, latencies, serverVars,
                 spoofTransactions, flashblocksBlockTag, issued>>

ApiNext ==
  \/ ApiTick
  \/ ResponseSent
  \/ \E byTag \in BOOLEAN : ConfirmRoute(byTag)
  \/ SendRoute
  \/ StartRoute

\* The process in either mode and with either tag.
ApiStart ==
  /\ spoofTransactions \in BOOLEAN
  /\ flashblocksBlockTag \in {"pending", "latest"}
  /\ InitState

ApiSpec == ApiStart /\ [][ApiNext]_vars

\* ------------------------------------------------------- the timed run

\* components/ConfirmationRaceDemo/index.tsx runs for five seconds, counts the
\* send animation in the loop and has no out-of-gas stop; the rest of its run
\* controller and of its loop is that of Part I.
startRunIndex(c) ==
  IF c.isRunning
    THEN c
    ELSE LET c1 == clearStopTimer(c)
             token == c1.runToken + 1
             c2 == [c1 EXCEPT !.runToken = token,
                              !.runDeadline = now + MAX_RUNTIME_MS_INDEX]
             c3 == [resetLanes(c2) EXCEPT !.isRunning = TRUE]
             c4 == [c3 EXCEPT !.stopTimerRef = token,
                              !.timeouts = @ \cup {[id |-> token,
                                                    due |-> now + MAX_RUNTIME_MS_INDEX]}]
         IN  loopTop(loopTop(c4, "flashblocks", token), "normal", token)

afterSendIndex(c, lane, token, outcome) ==
  LET c0 == postJsonFinally(c, token, lane) IN
  IF outcome.kind = "ok"
    THEN IF ~isActiveRun(c0, token)
           THEN exitLoop(c0, token, lane)
           ELSE LET c1 == [c0 EXCEPT !.loops[token][lane].txHash = outcome.txHash]
                    c2 == updateLane(c1, lane,
                            [c1.lanes[lane] EXCEPT !.status = "waiting",
                                                   !.sendAnimationTick = @ + 1])
                IN  pollTop(c2, lane, token)
    ELSE IF ~isActiveRun(c0, token) \/ outcome.kind = "abort"
           THEN exitLoop(c0, token, lane)
           ELSE LET c1 == updateLane(c0, lane,
                            [c0.lanes[lane] EXCEPT !.status = "error",
                                                   !.lastError = outcome.message])
                IN  [c1 EXCEPT !.loops[token][lane].pc = "sleepRetry",
                               !.loops[token][lane].sleepMs = SEND_RETRY_MS]

\* The body of a request of a lane's loop.
LaneBody(lane, txHash) ==
  [json |-> TRUE, isNull |-> FALSE, lane |-> [type |-> "string", text |-> lane],
   txHash |-> [type |-> "string", chars |-> txHash],
   durationSeconds |-> InvalidJson.durationSeconds]

\* postJson's outcome for a response of a route.
OutcomeOf(answer) ==
  IF answer.status = 200
    THEN Outcome("ok", answer.txHash, NullStr, answer.confirmed, answer.method)
    ELSE Outcome("error", 0, answer.error, FALSE, "none")

FailedRequest == Outcome("error", 0, "Request failed", FALSE, "none")

\* The timeout of a sleep that begins in this step is set.
SetWake(lane, token) ==
  wakeAt' = IF loops'[token][lane].pc \in {"sleepRetry", "sleepPoll"}
              THEN [wakeAt EXCEPT ![lane] = now + loops'[token][lane].sleepMs]
              ELSE wakeAt

\* A click on Start, once.
RaceStart ==
  /\ runToken = 0
  /\ CommitComponent(startRunIndex(Cur))
  /\ lastCall' = "startRun"
  /\ latencies' = NoLatencies
  /\ UNCHANGED <<now, served, serverVars, apiVars, raceVars, streamVars>>

\* The send request of a loop is answered by the route in spoof mode, or fails on
\* its way, and the loop runs to its next await.
RaceSendSettles(lane, token) ==
  /\ loops[token][lane].pc = "awaitSend"
  /\ \E o \in IF loops[token][lane].req = "aborted" THEN {AbortOutcome}
              ELSE {OutcomeOf(sendRoutePOSTSpoof(LaneBody(lane, <<>>),
                                                 Repeat("0", 50)).response)}
                   \cup (IF upsets < MaxUpsets THEN {FailedRequest} ELSE {}) :
       /\ CommitComponent(afterSendIndex(Cur, lane, token, o))
       /\ upsets' = IF o = FailedRequest THEN upsets + 1 ELSE upsets
       /\ late' = late \ {lane}
  /\ SetWake(lane, token)
  /\ lastCall' = "loop"
  /\ UNCHANGED <<now, served, latencies, serverVars, apiVars, streamVars>>

\* The confirm request of a loop is answered by the route in spoof mode, or fails.
RaceConfirmSettles(lane, token) ==
  /\ loops[token][lane].pc = "awaitConfirm"
  /\ \E o \in IF loops[token][lane].req = "aborted" THEN {AbortOutcome}
              ELSE {OutcomeOf(confirmRoutePOST(LaneBody(lane, loops[token][lane].polled),
                                               QuietRpc, FALSE).response)}
                   \cup (IF upsets < MaxUpsets THEN {FailedRequest} ELSE {}) :
       /\ CommitComponent(afterConfirm(Cur, lane, token, o))
       /\ upsets' = IF o = FailedRequest THEN upsets + 1 ELSE upsets
       /\ late' = late \ {lane}
       /\ lastCall' = IF o.kind = "error" THEN "pollFailed" ELSE "loop"
  /\ SetWake(lane, token)
  /\ latencies' =
       IF lanes'[lane].confirmationsObserved = lanes[lane].confirmationsObserved
         THEN latencies
         ELSE [latencies EXCEPT
                 ![lane] = Append(@, now - loops[token][lane].sendStartAt)]
  /\ UNCHANGED <<now, served, serverVars, apiVars, streamVars>>

\* The timeout of sleep(40) fires when it is due.
RaceRetryWake(lane, token) ==
  /\ loops[token][lane].pc = "sleepRetry"
  /\ wakeAt[lane] <= now
  /\ CommitComponent(loopTop(Cur, lane, token))
  /\ lastCall' = "loop"
  /\ UNCHANGED <<now, served, latencies, serverVars, apiVars, raceVars, streamVars>>

\* The timeout of sleep(CONFIRM_POLL_MS) fires when it is due.
RacePollWake(lane, token) ==
  /\ loops[token][lane].pc = "sleepPoll"
  /\ wakeAt[lane] <= now
  /\ CommitComponent(pollTop(Cur, lane, token))
  /\ lastCall' = "loop"
  /\ UNCHANGED <<now, served, latencies, serverVars, apiVars, raceVars, streamVars>>

\* The lanes whose request is on its way.
Unanswered == {l \in Lanes : \E t \in Tokens : loops[t][l].req = "pending"}

\* The moments at which a timeout is due.
TimerDues ==
  {wakeAt[l] : l \in {k \in Lanes : \E t \in Tokens :
                        loops[t][k].pc \in {"sleepRetry", "sleepPoll"}}}
  \cup {tm.due : tm \in timeouts}

\* Time passes up to the next timeout; the requests that are on their way
\* meanwhile are late.
RaceTick ==
  /\ isRunning
  /\ \A due \in TimerDues : due > now
  /\ upsets + Cardinality(Unanswered \ late) <= MaxUpsets
  /\ now' = CHOOSE due \in TimerDues : \A other \in TimerDues : due <= other
  /\ upsets' = upsets + Cardinality(Unanswered \ late)
  /\ late' = late \cup Unanswered
  /\ lastCall' = "tick"
  /\ UNCHANGED <<compVars, served, statusChanges, latencies, serverVars, apiVars, wakeAt, streamVars>>

RaceNext ==
  \/ RaceStart
  \/ \E l \in Lanes, t \in Tokens : RaceSendSettles(l, t)
  \/ \E l \in Lanes, t \in Tokens : RaceConfirmSettles(l, t)
  \/ \E l \in Lanes, t \in Tokens : RaceRetryWake(l, t)
  \/ \E l \in Lanes, t \in Tokens : RacePollWake(l, t)
  \/ AutoStop
  \/ RaceTick

\* The process in spoof mode.
RaceInit ==
  /\ spoofTransactions = TRUE
  /\ flashblocksBlockTag = "pending"
  /\ InitState

RaceSpec == RaceInit /\ [][RaceNext]_vars

\* ------------------------------------------------ spoof handles on their own

\* Creation times as fractions <<num, den>> of milliseconds: whole and fractional,
\* small and of the size of Date.now() in seconds, and two before the epoch.
CreatedAtSamples ==
  {<<0, 1>>, <<1, 2>>, <<1, 1>>, <<3, 2>>, <<255, 1>>, <<4095, 2>>, <<65536, 1>>,
   <<1762300000, 1>>, <<0 - 1, 1>>, <<0 - 1, 2>>}

\* buildSpoofTxHash is called for a lane at a time with some random bytes.
BuildHandle ==
  /\ request = NoRequest
  /\ Cardinality(issued) < MaxHandles
  /\ \E lane \in Lanes, t \in CreatedAtSamples, randomHex \in RandomHexSamples :
       issued' = issued \cup {[lane |-> lane, createdAtMs |-> t, randomHex |-> randomHex,
                               txHash |-> buildSpoofTxHash(lane, t, randomHex)]}
  /\ UNCHANGED <<raceVars, streamVars, compVars, served, now, lastCall, statusChanges, latencies,
                 serverVars, spoofTransactions, flashblocksBlockTag, request, response,
                 coreCall>>

\* parseSpoofTxHash is called for a handle that was built, as it is or as a client
\* returns it in upper case.
ParseHandle ==
  /\ request = NoRequest
  /\ \E h \in issued :
       \E txHash \in {h.txHash, toUpperCaseDigits(h.txHash)} :
         /\ request' = [route |-> "parse", handle |-> h, txHash |-> txHash]
         /\ response' = parseSpoofTxHash(txHash)
  /\ UNCHANGED <<raceVars, streamVars, compVars, served, now, lastCall, statusChanges, latencies,
                 serverVars, spoofTransactions, flashblocksBlockTag, issued, coreCall>>

\* The result has been used.
ParseDone ==
  /\ request # NoRequest
  /\ request' = NoRequest /\ response' = NoRequest
  /\ UNCHANGED <<raceVars, streamVars, compVars, served, now, lastCall, statusChanges, latencies,
                 serverVars, spoofTransactions, flashblocksBlockTag, issued, coreCall>>

HandleNext == BuildHandle \/ ParseHandle \/ ParseDone

HandleSpec == RaceInit /\ [][HandleNext]_vars

\* ------------------------------------- the response stream of the start route

\* The handler's view of the stream, as a record.
CurStream ==
  [closed |-> closed, runAbortController |-> runAbortController,
   abortListener |-> abortListener, streamState |-> streamState,
   controllerCalls |-> controllerCalls]

CommitStream(s) ==
  /\ closed' = s.closed
  /\ runAbortController' = s.runAbortController
  /\ abortListener' = s.abortListener
  /\ streamState' = s.streamState
  /\ controllerCalls' = s.controllerCalls

\* The events of the race: lane events and the end of the run; the event of the
\* route's catch handler.
NoEvent == [type |-> "none", reason |-> NullStr]

RaceEvents == {[type |-> "lane", reason |-> NullStr], [type |-> "end", reason |-> "duration"]}

EndError == [type |-> "end", reason |-> "error"]

\* controller.close(): it closes a readable stream, and throws on any other
\* (the state is then left as it is). The call is recorded with the state it met.
controllerClose(s) ==
  [s EXCEPT !.controllerCalls = Append(@, [op |-> "close", event |-> NoEvent,
                                           state |-> s.streamState]),
            !.streamState = IF @ = "readable" THEN "closed" ELSE @]

\* controller.enqueue(chunk): it queues the chunk on a readable stream, and throws
\* on any other.
controllerEnqueue(s, event) ==
  [s EXCEPT !.controllerCalls = Append(@, [op |-> "enqueue", event |-> event,
                                           state |-> s.streamState])]

close(s) ==
  IF s.closed THEN s ELSE controllerClose([s EXCEPT !.closed = TRUE])

pushEvent(s, event) ==
  IF s.closed THEN s ELSE controllerEnqueue(s, event)

\* The listener is registered with {once: true}.
handleRequestAbort(s) ==
  close([s EXCEPT !.abortListener = FALSE, !.runAbortController = "aborted"])

\* cancel() of the underlying source.
cancel(s) == [s EXCEPT !.runAbortController = "aborted"]

onRejected_silent(s) == s

\* The handler given to catch.
onRejected(s) ==
  IF s.closed THEN s ELSE pushEvent(s, EndError)

\* The handler given to finally.
onFinally(s) == close([s EXCEPT !.abortListener = FALSE])

\* The race calls onEvent, while it runs or after it has settled.
RaceEmits ==
  /\ emitted < MaxEvents
  /\ \E event \in RaceEvents : CommitStream(pushEvent(CurStream, event))
  /\ emitted' = emitted + 1
  /\ UNCHANGED <<requestAborted, race>>
  /\ UNCHANGED <<raceVars, compVars, served, now, lastCall, statusChanges, latencies,
                 serverVars, apiVars>>

\* The promise of runDemoRace settles: the catch handler runs if it was rejected,
\* and then the finally handler.
RaceSettles(outcome) ==
  /\ race = "pending"
  /\ race' = outcome
  /\ CommitStream(onFinally(IF outcome = "rejected" THEN onRejected(CurStream)
                                                     ELSE CurStream))
  /\ UNCHANGED <<requestAborted, emitted>>
  /\ UNCHANGED <<raceVars, compVars, served, now, lastCall, statusChanges, latencies,
                 serverVars, apiVars>>

\* request.signal aborts: the client has gone.
RequestAbort ==
  /\ ~requestAborted
  /\ requestAborted' = TRUE
  /\ CommitStream(IF abortListener THEN handleRequestAbort(CurStream) ELSE CurStream)
  /\ UNCHANGED <<race, emitted>>
  /\ UNCHANGED <<raceVars, compVars, served, now, lastCall, statusChanges, latencies,
                 serverVars, apiVars>>

\* The consumer cancels the stream: a readable stream is closed and the source's
\* cancel() is called; cancelling any other stream calls nothing.
Cancel ==
  /\ streamState = "readable"
  /\ CommitStream(cancel([CurStream EXCEPT !.streamState = "cancelled"]))
  /\ UNCHANGED <<requestAborted, race, emitted>>
  /\ UNCHANGED <<raceVars, compVars, served, now, lastCall, statusChanges, latencies,
                 serverVars, apiVars>>

StreamNext ==
  \/ RaceEmits
  \/ \E outcome \in {"fulfilled", "rejected"} : RaceSettles(outcome)
  \/ RequestAbort
  \/ Cancel

StreamSpec == RaceInit /\ [][StreamNext]_vars

\* runDemoRace runs for durationMs at most: its promise settles.
FairStreamSpec ==
  StreamSpec /\ WF_vars(\E outcome \in {"fulfilled", "rejected"} : RaceSettles(outcome))

\* ------------------------------------------- properties of the spoof engine

\* The last request was a confirmation check that reached checkLaneConfirmation.
Checked == request.route = "confirm" /\ coreCall # NoCall

\* The handles given out for which the hash of the last request stands.
IssuedAs(txHash) ==
  {h \in issued : txHash = h.txHash \/ txHash = toUpperCaseDigits(h.txHash)}

\* C21: in spoof mode a confirmation check is answered with confirmed = true if
\* and only if the handle is one the send route gave out for the lane of the
\* check and at least that lane's delay (800 ms for flashblocks, 2500 ms for
\* normal) has passed since the handle was made; a handle of the other lane and a
\* hash that is no handle are unconfirmed whenever they are checked.
C21_SpoofConfirmAfterDelay ==
  (spoofTransactions /\ Checked) =>
    /\ response.status = 200
    /\ response.confirmed <=>
         \E h \in IssuedAs(coreCall.txHash) :
           /\ h.lane = coreCall.lane
           /\ request.at - h.createdAtMs >=
                (IF coreCall.lane = "flashblocks" THEN 800 ELSE 2500)
    /\ ~response.confirmed =>
         (response.method = "none" /\ response.blockNumber = NullNum)

\* A handle of the flashblocks lane, sent back in upper case, was confirmed at the
\* very moment its 800 ms had passed.
C21_Witness ==
  /\ spoofTransactions /\ Checked
  /\ response.confirmed
  /\ coreCall.lane = "flashblocks"
  /\ coreCall.txHash \notin {h.txHash : h \in issued}
  /\ \E h \in IssuedAs(coreCall.txHash) :
       h.createdAtMs = 1 /\ request.at = 801

\* The run was ended by its auto-stop timeout.
RunEnded == ~isRunning /\ stoppedRuns # {}

ReceiptPolled ==
  /\ ~spoofTransactions /\ Checked /\ ~request.byTag
  /\ coreCall.lane = "flashblocks"
  /\ response.status = 200

\* C24: the receipt poll reports confirmed exactly when there is a receipt and the
\* receipt carries a block height; a receipt without one is reported unconfirmed.
C24_ReceiptNeedsBlockHeight ==
  ReceiptPolled =>
    (response.confirmed <=>
       (request.rpc.receipt.exists /\ request.rpc.receipt.blockNumber # NullHex))

\* A live check of a lane that scans the block of a tag was answered: the
\* flashblocks lane when it scans flashblocksBlockTag, the normal lane when it
\* scans latest.
Scanned ==
  /\ ~spoofTransactions /\ Checked
  /\ response.status = 200
  /\ coreCall.lane = (IF request.byTag THEN "flashblocks" ELSE "normal")

ScanTag == IF request.byTag THEN flashblocksBlockTag ELSE "latest"

\* Two hashes name the same transaction: the same digits, in either case.
SameTransaction(a, b) ==
  /\ Len(a) = Len(b)
  /\ a[1] = b[1] /\ a[2] = b[2]
  /\ \A k \in 3..Len(a) : DigitValue(a[k]) = DigitValue(b[k])

\* The transaction is in the list of the block fetched for the tag.
Appears ==
  /\ request.rpc.block.exists
  /\ \E i \in DOMAIN request.rpc.block.transactions :
       SameTransaction(request.rpc.block.transactions[i], coreCall.txHash)

HasMinedReceipt ==
  request.rpc.receipt.exists /\ request.rpc.receipt.blockNumber # NullHex

LiveCheck == ~spoofTransactions /\ Checked /\ ~request.byTag

\* The query of the lane's strategy failed in transport.
QueryFails ==
  IF coreCall.lane = "flashblocks" THEN request.rpc.receiptFails
  ELSE request.rpc.blockFails

\* The query found nothing: no receipt, no block, or a block without the transaction.
NotFound ==
  IF coreCall.lane = "flashblocks" THEN ~request.rpc.receipt.exists
  ELSE ~Appears

ValidLane == request.body.lane.type = "string"
             /\ request.body.lane.text \in {"flashblocks", "normal"}

\* The txHash of the body is 0x and 64 hexadecimal digits.
ValidTxHash ==
  /\ request.body.txHash.type = "string"
  /\ Len(request.body.txHash.chars) = 66
  /\ SubSeq(request.body.txHash.chars, 1, 2) = <<"0", "x">>
  /\ \A i \in 3..66 :
       request.body.txHash.chars[i] \in
         {"0", "1", "2", "3", "4", "5", "6", "7", "8", "9", "a", "b", "c", "d", "e", "f",
          "A", "B", "C", "D", "E", "F"}

\* The durationSeconds of the body is a finite number from 1 to 60.
ValidDuration ==
  /\ request.body.durationSeconds.type = "number"
  /\ request.body.durationSeconds.finite
  /\ request.body.durationSeconds.value[1] >= request.body.durationSeconds.value[2]
  /\ request.body.durationSeconds.value[1] <= 60 * request.body.durationSeconds.value[2]

\* The body is an object that carries what the route's core needs.
WellFormed ==
  /\ request.body.json /\ ~request.body.isNull
  /\ request.route = "start" => ValidDuration
  /\ request.route = "send" => ValidLane
  /\ request.route = "confirm" => (ValidLane /\ ValidTxHash)

\* The core is invoked for well-formed input only, and with the input's values.
CoreOnlyWhenWellFormed ==
  /\ coreCall # NoCall => WellFormed
  /\ (coreCall # NoCall /\ request.route = "start") =>
       coreCall.durationMs \in 1000..60000
  /\ (coreCall # NoCall /\ request.route # "start") =>
       coreCall.lane = request.body.lane.text
  /\ (coreCall # NoCall /\ request.route = "confirm") =>
       coreCall.txHash = request.body.txHash.chars

\* C27: malformed input of a route is answered with 400 and the core is not
\* invoked: a duration that is not a finite number from 1 to 60 does not reach
\* runDemoRace and an accepted one gives durationMs from 1000 to 60000, a lane
\* other than the two does not reach sendLaneTransaction or checkLaneConfirmation,
\* and a txHash that is not 0x and 64 hexadecimal digits does not reach
\* checkLaneConfirmation.
C27_MalformedRejectedWith400 ==
  request # NoRequest =>
    /\ CoreOnlyWhenWellFormed
    /\ ~WellFormed => response.status = 400

\* The loop of run t and lane l resumes in this step from an await: a response
\* or a timeout of its own.
Resumes(t, l) ==
  /\ loops[t][l].pc \in {"awaitSend", "awaitConfirm", "sleepRetry", "sleepPoll"}
  /\ loops'[t][l].pc # loops[t][l].pc

\* C28 as it stands: no step of a lane's loop changes any field of the other
\* lane's state.
C28_LaneOwnsItsState ==
  [][\A t \in Tokens : \A l \in Lanes :
       Resumes(t, l) => lanes'[OtherLane(l)] = lanes[OtherLane(l)]]_vars

\* C28, amended: a step of a lane's loop records status changes of its own lane
\* only and leaves every field of the other lane's state as it was, but for the
\* step in which its send fails for insufficient funds: that step stops the run,
\* and the other lane's status becomes 'stopped', its other fields unchanged.
C28_LaneOwnsItsStateButFundsStop ==
  [][\A t \in Tokens : \A l \in Lanes :
       Resumes(t, l) =>
         /\ \A i \in 1..Len(statusChanges') : statusChanges'[i].lane = l
         /\ lanes'[OtherLane(l)] =
              IF RecordsSendError(t, l, InsufficientFundsMessage)
                THEN [lanes[OtherLane(l)] EXCEPT !.status = "stopped"]
                ELSE lanes[OtherLane(l)]]_vars

\* The flashblocks lane has just recorded a confirmation and gone on to its next
\* send while the normal lane is still in its first send.
C28_Witness ==
  /\ isRunning /\ lastCall = "loop"
  /\ Len(statusChanges) = 2
  /\ statusChanges[1] = [lane |-> "flashblocks", from |-> "waiting", to |-> "confirmed"]
  /\ lanes["flashblocks"].confirmationsObserved = 1
  /\ lanes["flashblocks"].sendsAttempted = 2
  /\ lanes["normal"].status = "sending"
  /\ lanes["normal"].sendsAttempted = 1
  /\ lanes["normal"].confirmationsObserved = 0

\* A lane's counters or latencies go back in this step: a counter is lower than
\* it was, or a latency that was there is gone.
GoesBack(l) ==
  \/ lanes'[l].sendsAttempted < lanes[l].sendsAttempted
  \/ lanes'[l].confirmationsObserved < lanes[l].confirmationsObserved
  \/ lanes[l].latestLatencyMs # NullNum /\ lanes'[l].latestLatencyMs = NullNum
  \/ lanes[l].averageLatencyMs # NullAvg /\ lanes'[l].averageLatencyMs = NullAvg

DecodedFromEpoch == request.route = "parse" /\ request.handle.createdAtMs[1] >= 0

\* C30: a handle built for a lane and a time t >= 0 decodes to that lane and to
\* floor(t), the whole number n with n <= t < n + 1, whatever its random digits.
C30_SpoofHandleRoundTrip ==
  DecodedFromEpoch =>
    /\ response # NullSpoofTx
    /\ response.lane = request.handle.lane
    /\ response.createdAtMs * request.handle.createdAtMs[2] <= request.handle.createdAtMs[1]
    /\ request.handle.createdAtMs[1] <
         (response.createdAtMs + 1) * request.handle.createdAtMs[2]
    /\ \A g \in issued :
         (g.lane = request.handle.lane /\ g.createdAtMs = request.handle.createdAtMs)
           => parseSpoofTxHash(g.txHash) = response

\* The handle of the normal lane built at 2047.5 ms, returned in upper case, was
\* decoded to 2047 while a handle of the same lane and time with other random
\* digits was at hand.
C30_Witness ==
  /\ DecodedFromEpoch
  /\ request.handle.lane = "normal"
  /\ request.handle.createdAtMs = <<4095, 2>>
  /\ request.txHash # request.handle.txHash
  /\ response = [lane |-> "normal", createdAtMs |-> 2047]
  /\ \E g \in issued : g.createdAtMs = <<4095, 2>> /\ g.randomHex # request.handle.randomHex

\* C31: at most one auto-stop timeout is pending, and it is the one armed for the
\* run that is on, due at that run's deadline; the deadline is set by the run's
\* start to MAX_RUNTIME_MS later and stays while the run is on; and a run ends
\* by a stop of its own or by its timeout at or after its deadline, never by a
\* timeout armed for an earlier run.
C31_NoStaleAutoStop ==
  /\ [](/\ Cardinality(timeouts) <= 1
        /\ \A tm \in timeouts :
             /\ isRunning
             /\ tm.id = runToken /\ tm.id = stopTimerRef
             /\ tm.due = runDeadline)
  /\ [][/\ lastCall' = "startRun" =>
             /\ runDeadline' = now + MAX_RUNTIME_MS
             /\ timeouts' = {[id |-> runToken', due |-> now + MAX_RUNTIME_MS]}
        /\ (isRunning /\ isRunning') => runDeadline' = runDeadline
        /\ (isRunning /\ ~isRunning') =>
             \/ lastCall' \in {"stopRun", "fundsStop"}
             \/ lastCall' = "autoStop" /\ now >= runDeadline]_vars

\* A run was stopped by hand, a new run was started 4000 ms into the first one
\* and lasted until its own timeout, 8000 ms after its start.
C31_Witness ==
  /\ lastCall = "autoStop"
  /\ Cardinality(stoppedRuns) = 2
  /\ now = TickMs + MAX_RUNTIME_MS
  /\ timeouts = {}

\* The pcs at which a loop awaits the answer to a request.
AwaitsRequest == {"awaitSend", "awaitConfirm"}

\* C32: the tracked controllers are exactly those of the requests that were
\* issued and have neither settled nor been aborted by a stop; they belong to the
\* run that is on, one per lane at most, two in all at most; when a request
\* settles, its controller is tracked no longer unless the loop has issued its
\* next request in the same step; and a stop leaves none tracked.
C32_InFlightTracksOpenRequests ==
  /\ [](/\ inFlightRequests =
             {r \in Tokens \X Lanes : loops[r[1]][r[2]].req = "pending"}
        /\ Cardinality(inFlightRequests) <= 2
        /\ \A r \in inFlightRequests :
             /\ isRunning /\ r[1] = runToken
             /\ loops[r[1]][r[2]].pc \in AwaitsRequest
             /\ \A q \in inFlightRequests : q[2] = r[2] => q = r)
  /\ [][/\ \A t \in Tokens : \A l \in Lanes :
             (loops[t][l].pc \in AwaitsRequest /\ loops'[t][l].pc # loops[t][l].pc) =>
               IF loops'[t][l].pc \in AwaitsRequest
                 THEN loops'[t][l].req = "pending" /\ <<t, l>> \in inFlightRequests'
                 ELSE loops'[t][l].req = "none" /\ <<t, l>> \notin inFlightRequests'
        /\ lastCall' \in {"stopRun", "autoStop", "fundsStop"} =>
             inFlightRequests' = {}]_vars

\* The flashblocks lane's send has failed and its controller is gone, while the
\* normal lane's request is still on its way.
C32_Witness ==
  /\ isRunning
  /\ loops[runToken]["flashblocks"].pc = "sleepRetry"
  /\ loops[runToken]["flashblocks"].req = "none"
  /\ inFlightRequests = {<<runToken, "normal">>}

\* C33: a lane that is 'idle', 'sending', 'waiting' or 'confirmed' has no
\* lastError; a lane with a lastError is in 'error' or 'stopped'; and a lane is
\* 'stopped' with a lastError only if it was in 'error' when it was stopped, the
\* error of that very step included, and has been 'stopped' since.
C33_LastErrorOnlyInError ==
  /\ [](\A l \in Lanes :
          /\ lanes[l].status \in {"idle", "sending", "waiting", "confirmed"}
               => lanes[l].lastError = NullStr
          /\ lanes[l].lastError # NullStr => lanes[l].status \in {"error", "stopped"})
  /\ [][\A l \in Lanes :
          (lanes'[l].status = "stopped" /\ lanes'[l].lastError # NullStr) =>
            \/ lanes[l].status = "error" /\ lanes'[l].lastError = lanes[l].lastError
            \/ lanes'[l] = lanes[l]
            \/ /\ lastCall' = "fundsStop"
               /\ Len(statusChanges') = 1
               /\ statusChanges'[1].to = "error"]_vars

\* The Stop button was pressed while the flashblocks lane was in 'error': the
\* lane is 'stopped' and still shows the message; the normal lane shows none.
C33_Witness ==
  /\ lastCall = "stopRun"
  /\ lanes["flashblocks"].status = "stopped"
  /\ lanes["flashblocks"].lastError = "nonce too low"
  /\ lanes["normal"].status = "stopped"
  /\ lanes["normal"].lastError = NullStr
  /\ lanes["normal"].sendsAttempted = 1

\* C34: a lane has counted no more confirmations than sends, and its latest and
\* average latency are null exactly when it has counted no confirmation.
C34_MetricsConsistent ==
  \A l \in Lanes :
    /\ lanes[l].confirmationsObserved <= lanes[l].sendsAttempted
    /\ lanes[l].latestLatencyMs = NullNum <=> lanes[l].confirmationsObserved = 0
    /\ lanes[l].averageLatencyMs = NullAvg <=> lanes[l].confirmationsObserved = 0

\* The flashblocks lane has a confirmation and its latencies, the normal lane has
\* sent and has neither.
C34_Witness ==
  /\ lanes["flashblocks"].confirmationsObserved = 1
  /\ lanes["flashblocks"].sendsAttempted = 2
  /\ lanes["flashblocks"].latestLatencyMs # NullNum
  /\ lanes["flashblocks"].averageLatencyMs # NullAvg
  /\ lanes["normal"].sendsAttempted = 1
  /\ lanes["normal"].confirmationsObserved = 0
  /\ lanes["normal"].latestLatencyMs = NullNum

\* C35: a send that has failed, after its retry as well, does not hold up the
\* queue: every operation that is queued is started in the end; and an operation
\* settles with the outcome of the last wallet call made for it, while the
\* settlement of one operation leaves the result and the error of every other
\* operation as they were.
C35_FailureDoesNotPoisonQueue ==
  /\ \A k \in 1..MaxOps :
       (k <= Len(ops) /\ ops[k].status = "queued")
         ~> (k <= Len(ops) /\ ops[k].status # "queued")
  /\ [](\A k \in 1..Len(ops) :
          LET calls == CallsOf(k) IN
          /\ ops[k].status = "fulfilled" =>
               (calls # <<>> /\ calls[Len(calls)].outcome = "ok" /\ ops[k].error = NullStr)
          /\ ops[k].status = "rejected" =>
               (calls # <<>> /\ calls[Len(calls)].outcome = ops[k].error))
  /\ [][\A k \in 1..Len(ops) :
          (Len(walletCalls') > Len(walletCalls)
             /\ walletCalls'[Len(walletCalls')].op # k) =>
            /\ ops'[k].error = ops[k].error
            /\ ops'[k].status \in {ops[k].status, "sending"}
            /\ ops'[k].status # ops[k].status => ops[k].status = "queued"]_vars

\* The first send was rejected after its retry, and the send enqueued behind it
\* was then started and fulfilled.
C35_Witness ==
  /\ Len(ops) >= 2
  /\ ops[1].status = "rejected" /\ ops[1].attempts = 2
  /\ ops[2].status = "fulfilled" /\ ops[2].error = NullStr
  /\ ops[2].pred = 1

\* The first wallet call of operation k fails in this step with a
\* nonce-synchronization error.
FirstAttemptFails(k) ==
  /\ ops[k].status = "sending" /\ ops[k].attempts = 1
  /\ Len(walletCalls') = Len(walletCalls) + 1
  /\ walletCalls'[Len(walletCalls')].op = k
  /\ isNonceSyncError(walletCalls'[Len(walletCalls')].outcome)

\* C36: the reset and the retry take place in the failing operation's own turn:
\* in the step of the failure the nonce is reset and the second call is made with
\* the reset nonce, and no other operation is started or changed; while the retry
\* is in flight no other operation is; and the wallet call that settles next
\* after the failed one is the retry.
C36_RetryInsideOwnSlot ==
  /\ [](/\ \A k \in 1..Len(ops) :
             (ops[k].status = "sending" /\ ops[k].attempts = 2) =>
               \A j \in 1..Len(ops) :
                 j # k => /\ ops[j].status # "sending"
                          /\ j > k => ops[j].status = "queued"
                          /\ j < k => ops[j].status \in {"fulfilled", "rejected"}
        /\ \A i \in 1..(Len(walletCalls) - 1) :
             (isNonceSyncError(walletCalls[i].outcome)
                /\ \A h \in 1..(i - 1) : walletCalls[h].op # walletCalls[i].op)
               => walletCalls[i + 1].op = walletCalls[i].op)
  /\ [][\A k \in 1..Len(ops) :
          FirstAttemptFails(k) =>
            /\ ops'[k] = [ops[k] EXCEPT !.attempts = 2, !.resets = 1,
                                        !.nonce = sourceNonce]
            /\ nonceNext' = sourceNonce
            /\ started' = started
            /\ \A j \in 1..Len(ops) : j # k => ops'[j] = ops[j]]_vars

\* The retry of the first send is in flight after a reset that changed the
\* nonce, and two sends enqueued meanwhile are waiting.
C36_Witness ==
  /\ Len(ops) = 3
  /\ ops[1].status = "sending" /\ ops[1].attempts = 2 /\ ops[1].resets = 1
  /\ ops[2].status = "queued" /\ ops[3].status = "queued"
  /\ ops[2].lane # ops[1].lane

\* ------------------------------------------- properties of the start stream

\* The calls of controller.close made so far.
CloseCalls ==
  LET IsClose(call) == call.op = "close" IN SelectSeq(controllerCalls, IsClose)

\* C37: every call of enqueue and of close on the controller meets a readable
\* stream, that is none is made once the stream was closed by the handler or
\* cancelled by the consumer, and close is called at most once.
C37_NoCallAfterClosedOrCancelled ==
  /\ \A i \in 1..Len(controllerCalls) : controllerCalls[i].state = "readable"
  /\ Len(CloseCalls) <= 1

\* What of C37 the closed flag does give: nothing is called on the controller
\* once the handler has closed the stream, and close is called at most once.
C37_NoCallAfterHandlerClosed ==
  /\ \A i \in 1..Len(controllerCalls) : controllerCalls[i].state # "closed"
  /\ Len(CloseCalls) <= 1
  /\ closed <=> Len(CloseCalls) = 1

\* The consumer cancelled, the race emitted an event and settled: enqueue and
\* close were both called on the cancelled stream.
C37_Witness ==
  /\ Len(controllerCalls) >= 2
  /\ \E i \in 1..Len(controllerCalls) :
       controllerCalls[i].op = "enqueue" /\ controllerCalls[i].state = "cancelled"
  /\ controllerCalls[Len(controllerCalls)] =
       [op |-> "close", event |-> NoEvent, state |-> "cancelled"]

\* The end/error events enqueued so far.
ErrorEnds ==
  LET IsErrorEnd(call) == call.op = "enqueue" /\ call.event = EndError
  IN  SelectSeq(controllerCalls, IsErrorEnd)

\* C38: the stream is closed as soon as the race has settled or the request was
\* aborted, and every stream does get closed; a request abort while the race
\* runs, and a cancel, abort the race's signal; when the race rejects while the
\* stream is readable the handler enqueues one end/error event and then closes,
\* and no other end/error event is ever enqueued.
C38_StreamEventuallyClosed ==
  /\ <>(streamState # "readable")
  /\ []((race # "pending" \/ requestAborted) => (closed /\ streamState # "readable"))
  /\ [](streamState = "cancelled" => runAbortController = "aborted")
  /\ [](Len(ErrorEnds) <= 1)
  /\ [](Len(ErrorEnds) = 1 => race = "rejected")
  /\ [][/\ (requestAborted' /\ ~requestAborted /\ race = "pending")
             => runAbortController' = "aborted"
        /\ (streamState' = "cancelled" /\ streamState = "readable")
             => runAbortController' = "aborted"
        /\ (race = "pending" /\ race' = "rejected" /\ streamState = "readable")
             => controllerCalls' = controllerCalls \o
                  <<[op |-> "enqueue", event |-> EndError, state |-> "readable"],
                    [op |-> "close", event |-> NoEvent, state |-> "readable"]>>]_vars

\* The race emitted an event and was then rejected while the stream was open:
\* the event, the end/error event and the close, in this order.
C38_Witness ==
  /\ race = "rejected"
  /\ streamState = "closed"
  /\ ~requestAborted /\ runAbortController = "live"
  /\ Len(controllerCalls) = 3
  /\ controllerCalls[1].op = "enqueue" /\ controllerCalls[1].event \in RaceEvents
  /\ controllerCalls[2] = [op |-> "enqueue", event |-> EndError, state |-> "readable"]
  /\ controllerCalls[3] = [op |-> "close", event |-> NoEvent, state |-> "readable"]

\* The last request was a confirmation check whose txHash is, as it was given
\* out, a handle of the send route.
OwnHandleChecked ==
  /\ request.route = "confirm"
  /\ request.body.json /\ ~request.body.isNull
  /\ request.body.txHash.type = "string"
  /\ \E h \in issued : request.body.txHash.chars = h.txHash

\* C39: a handle the send route gives out in spoof mode is 0x and 64 hexadecimal
\* digits, which isTransactionHash accepts; the confirm route never answers a
\* check of such a handle with the 400 of a bad txHash, and answers it with 200
\* when the lane is one of the two.
C39_SpoofHandleIsValidHash ==
  /\ \A h \in issued :
       /\ isTransactionHash([type |-> "string", chars |-> h.txHash])
       /\ Len(h.txHash) = 66
       /\ \A i \in 3..66 : h.txHash[i] \in {HexChars[d] : d \in 1..16}
  /\ (request.route = "send" /\ response.status = 200) =>
       isTransactionHash([type |-> "string", chars |-> response.txHash])
  /\ OwnHandleChecked =>
       /\ response.error # "txHash must be a 32-byte hex string"
       /\ response.status = 400 => ~isDemoLane(request.body.lane)
       /\ isDemoLane(request.body.lane) => response.status = 200

\* A handle given out at 2500 ms, whose time has three digits and is padded to
\* twelve, was checked as it was given out and the check was answered with 200.
C39_Witness ==
  /\ spoofTransactions
  /\ OwnHandleChecked
  /\ response.status = 200
  /\ coreCall # NoCall
  /\ \E h \in issued :
       /\ request.body.txHash.chars = h.txHash
       /\ h.createdAtMs = 2500
       /\ SubSeq(h.txHash, 5, 16) = Repeat("0", 9) \o <<"9", "c", "4">>

====
